---------------------------- MODULE Spec2Model ----------------------------
(***************************************************************************)
(* A model of src/libde265-dec.c, the GStreamer element that bridges the   *)
(* libde265 HEVC decode engine and the host pipeline.                       *)
(*                                                                         *)
(* The build modelled is GStreamer >= 1.0 with libde265 1.x (>= 1.0 and    *)
(* < 2.0): the FrameRef code exists (GST_CHECK_VERSION(1,0,0)), the        *)
(* per-plane bit depth comes from de265_get_bits_per_pixel, and the pump   *)
(* is the de265_decode loop.                                               *)
(*                                                                         *)
(* The engine (libde265) and the host (GstVideoDecoder) are the            *)
(* environment: every status an engine call returns and every host         *)
(* allocation or mapping result is a nondeterministic input of the step    *)
(* that makes the call.                                                    *)
(***************************************************************************)
EXTENDS Integers, Sequences, FiniteSets, TLC

VARIABLES
    (* the pixel format resolver under test *)
    fmt_chroma,     \* the chroma argument
    fmt_bits,       \* the bits_per_pixel argument
    fmt_result      \* the GstVideoFormat returned, "none" before the call

fmtVars == <<fmt_chroma, fmt_bits, fmt_result>>

VARIABLES
    (* GstLibde265Dec, the session *)
    mode,           \* dec->mode
    length_size,    \* dec->length_size
    codec_data,     \* dec->codec_data (dec->codec_data_size is its length)
    ctx             \* dec->ctx: "NULL", or "ctx" for a decoder context

VARIABLES
    frame_number,   \* dec->frame_number
    buffer_full,    \* dec->buffer_full
    width,          \* dec->width
    height,         \* dec->height
    output_state    \* dec->output_state: "NULL", or the negotiated format

decVars == <<mode, length_size, codec_data, ctx>>

outVars == <<frame_number, buffer_full, width, height, output_state>>

VARIABLES
    (* what the element has asked of the engine and told the host during   *)
    (* the handler that is running or ran last                             *)
    eng,            \* the engine calls made, in order
    host            \* the errors and warnings posted to the host, in order

envVars == <<eng, host>>

VARIABLES
    (* gst_libde265_dec_set_format *)
    sf_pc,          \* where the call is: idle, array, nal, end, pump, done
    sf_data,        \* info.data (info.size is its length)
    sf_mapped,      \* the codec-data buffer is mapped
    sf_pos,         \* pos
    sf_i,           \* i
    sf_j,           \* j
    sf_num_param_sets,  \* num_param_sets
    sf_nal_count,   \* nal_count
    sf_oob,         \* a byte at an index >= size was read
    sf_ret          \* the value returned, "none" until the call returns

sfVars == <<sf_pc, sf_data, sf_mapped, sf_pos, sf_i, sf_j, sf_num_param_sets,
            sf_nal_count, sf_oob, sf_ret>>

VARIABLES
    (* gst_libde265_dec_handle_frame *)
    hf_pc,          \* where the call is: idle, nal, pump, warn, picture, done
    hf_frame,       \* frame->system_frame_number of the frame handed in
    hf_data,        \* info.data of frame->input_buffer (size is its length)
    hf_pts,         \* pts
    hf_mapped,      \* the input buffer is mapped
    hf_start,       \* start_data - frame_data
    hf_ub,          \* start_data has left the buffer: behaviour undefined
    hf_ret          \* the GstFlowReturn returned, "none" until the return

hfVars == <<hf_pc, hf_frame, hf_data, hf_pts, hf_mapped, hf_start, hf_ub,
            hf_ret>>

VARIABLES
    (* the engine's pictures, the FrameRefs and the host's frames *)
    slots,          \* the engine's picture slots
    outq,           \* the engine's output queue: slots, next picture first
    refs,           \* every struct GstLibde265FrameRef allocated so far
    frames,         \* the host's GstVideoCodecFrames by system_frame_number
    gb,             \* the last get_buffer call: its arguments and outcome
    rb              \* the last release_buffer call

picVars == <<slots, outq, refs, frames, gb, rb>>

VARIABLES
    (* the frame rates the element holds and is given *)
    fps,            \* dec->fps_n and dec->fps_d, the "framerate" property
    caps_fps,       \* the frame rate of the caps the host will configure
    input_state,    \* dec->input_state: NoState, or the frame rate it carries
    out_fps         \* the frame rate of dec->output_state, NoState without one

fpsVars == <<fps, caps_fps, input_state, out_fps>>

VARIABLES
    (* gst_libde265_dec_flush *)
    fl_pc,          \* where the call is: idle, pump, done
    fl_ret          \* the value returned, "none" until the call returns

flVars == <<fl_pc, fl_ret>>

VARIABLES
    (* the plane copy loop of gst_libde265_dec_handle_frame *)
    cp_pc,          \* where the loop is: idle, plane, done
    cp_img,         \* the picture: per plane width, height, stride, depth
    cp_plane,       \* plane
    cp_dest,        \* dest - info.data
    cp_out,         \* the bytes written to the output buffer, by offset
    cp_rows,        \* per row copied: what was read and what was written
    cp_ub           \* a shift by a negative count was evaluated

cpVars == <<cp_pc, cp_img, cp_plane, cp_dest, cp_out, cp_rows, cp_ub>>

VARIABLES
    (* the threads: the one that drives the pump and the engine's workers *)
    th_pc,          \* the pump thread in the delivery of a picture: 0 when
                    \* it is not, else the index of its next step
    th_slot,        \* the slot of the picture it delivers, 0 for none
    th_cb,          \* per slot, the callback a thread is executing
    th_writes       \* every write to a FrameRef's mapped or buffer field

thVars == <<th_pc, th_slot, th_cb, th_writes>>

vars == <<fmtVars, decVars, outVars, envVars, sfVars, hfVars, picVars,
          fpsVars, flVars, cpVars, thVars>>

---------------------------------------------------------------------------
(* Bounds of the model. *)

\* bit depths 0..MaxBits are tried by the resolver specification
MaxBits == 18

\* a configuration record holds at most MaxBody bytes from byte 22 on
MaxBody == 8

\* the host hands at most MaxFrames frames to handle_frame
MaxFrames == 2

\* the engine calls get_buffer at most MaxCalls times
MaxCalls == 2

\* a chunk holds at most MaxChunk bytes
MaxChunk == 5

\* the engine holds at most MaxWarnings warnings when they are drained
MaxWarnings == 2

\* a copied plane is at most MaxCopyWidth samples wide
MaxCopyWidth == 2

\* a copied plane is at most MaxCopyHeight rows high
MaxCopyHeight == 2

\* a row of a copied plane is followed by at most MaxCopyPad padding samples
MaxCopyPad == 2

---------------------------------------------------------------------------
(* enum de265_chroma, and a value outside the enumeration. *)

de265_chroma_mono == "mono"
de265_chroma_420 == "420"
de265_chroma_422 == "422"
de265_chroma_444 == "444"
chroma_other == "other"

ChromaValues ==
    {de265_chroma_mono, de265_chroma_420, de265_chroma_422,
     de265_chroma_444, chroma_other}

(* GstVideoFormat, the members the element uses. *)
GST_VIDEO_FORMAT_UNKNOWN == "UNKNOWN"
GST_VIDEO_FORMAT_GRAY8 == "GRAY8"
GST_VIDEO_FORMAT_I420 == "I420"
GST_VIDEO_FORMAT_Y42B == "Y42B"
GST_VIDEO_FORMAT_Y444 == "Y444"
GST_VIDEO_FORMAT_I420_10LE == "I420_10LE"
GST_VIDEO_FORMAT_I422_10LE == "I422_10LE"
GST_VIDEO_FORMAT_Y444_10LE == "Y444_10LE"

(* BitsSwitch with the default branch's upper limit off by one. *)
BitsSwitch_upper15(bits_per_pixel, fmt8, fmt10) ==
    CASE bits_per_pixel = 8 -> fmt8
      [] bits_per_pixel = 9 -> fmt10
      [] bits_per_pixel = 10 -> fmt10
      [] OTHER ->
           IF bits_per_pixel > 10 /\ bits_per_pixel < 16
           THEN fmt10
           ELSE GST_VIDEO_FORMAT_UNKNOWN

(* BitsSwitch with the default branch's upper limit missing. *)
BitsSwitch_unlimited(bits_per_pixel, fmt8, fmt10) ==
    CASE bits_per_pixel = 8 -> fmt8
      [] bits_per_pixel = 9 -> fmt10
      [] bits_per_pixel = 10 -> fmt10
      [] OTHER ->
           IF bits_per_pixel > 10
           THEN fmt10
           ELSE GST_VIDEO_FORMAT_UNKNOWN

(* The inner switch on bits_per_pixel, the same for the three colour       *)
(* layouts: case 8, case 9, case 10, and the default branch that accepts   *)
(* 10 < bits <= 16.                                                        *)
BitsSwitch(bits_per_pixel, fmt8, fmt10) ==
    CASE bits_per_pixel = 8 -> fmt8
      [] bits_per_pixel = 9 -> fmt10
      [] bits_per_pixel = 10 -> fmt10
      [] OTHER ->
           IF bits_per_pixel > 10 /\ bits_per_pixel <= 16
           THEN fmt10
           ELSE GST_VIDEO_FORMAT_UNKNOWN

(* _gst_libde265_get_video_format (the GStreamer >= 1.0 branches). *)
gst_libde265_get_video_format(chroma, bits_per_pixel) ==
    CASE chroma = de265_chroma_mono -> GST_VIDEO_FORMAT_GRAY8
      [] chroma = de265_chroma_420 ->
           BitsSwitch(bits_per_pixel, GST_VIDEO_FORMAT_I420,
                      GST_VIDEO_FORMAT_I420_10LE)
      [] chroma = de265_chroma_422 ->
           BitsSwitch(bits_per_pixel, GST_VIDEO_FORMAT_Y42B,
                      GST_VIDEO_FORMAT_I422_10LE)
      [] chroma = de265_chroma_444 ->
           BitsSwitch(bits_per_pixel, GST_VIDEO_FORMAT_Y444,
                      GST_VIDEO_FORMAT_Y444_10LE)
      [] OTHER -> GST_VIDEO_FORMAT_UNKNOWN

---------------------------------------------------------------------------
(* The resolver specification: the arguments are drawn, the function is    *)
(* applied once.                                                           *)

FmtArgs ==
    /\ fmt_chroma \in ChromaValues
    /\ fmt_bits \in 0..MaxBits
    /\ fmt_result = "none"

FmtIdle ==
    /\ fmt_chroma = de265_chroma_mono
    /\ fmt_bits = 0
    /\ fmt_result = "none"

ResolveFormat ==
    /\ fmt_result = "none"
    /\ fmt_result' = gst_libde265_get_video_format(fmt_chroma, fmt_bits)
    /\ UNCHANGED <<fmt_chroma, fmt_bits>>
    /\ UNCHANGED <<decVars, outVars, envVars, sfVars, hfVars, picVars>>
    /\ UNCHANGED <<fpsVars, flVars, cpVars, thVars>>

---------------------------------------------------------------------------
(* The session, GstLibde265Dec. *)

GST_TYPE_LIBDE265_DEC_PACKETIZED == "PACKETIZED"
GST_TYPE_LIBDE265_DEC_RAW == "RAW"

DEFAULT_MODE == GST_TYPE_LIBDE265_DEC_PACKETIZED

(* dec->codec_data == NULL: no buffer, told apart from every byte string.  *)
NoCodecData == <<-1>>

(* gst_libde265_dec_init with _gst_libde265_dec_reset_decoder: the fields  *)
(* the model keeps.                                                        *)
ElementInit ==
    /\ mode = DEFAULT_MODE
    /\ length_size = 4
    /\ codec_data = NoCodecData
    /\ ctx = "NULL"

(* The session of a new element after gst_libde265_dec_start.  The "mode"  *)
(* property may have been set since gst_libde265_dec_init.                 *)
DecInit ==
    /\ mode \in {DEFAULT_MODE, GST_TYPE_LIBDE265_DEC_RAW}
    /\ length_size = 4
    /\ codec_data = NoCodecData
    /\ ctx = "ctx"

EnvInit ==
    /\ eng = <<>>
    /\ host = <<>>

(* The "framerate" property's default. *)
DEFAULT_FPS_N == 0
DEFAULT_FPS_D == 1

(* dec->input_state == NULL, dec->output_state == NULL: no frame rate. *)
NoState == <<>>

(* The frame rates after gst_libde265_dec_init: the property at its        *)
(* default, no input state and no output state yet.  The host's caps will  *)
(* carry 30/1.                                                             *)
FpsInit ==
    /\ fps = <<DEFAULT_FPS_N, DEFAULT_FPS_D>>
    /\ caps_fps = <<30, 1>>
    /\ input_state = NoState
    /\ out_fps = NoState

(* gst_libde265_dec_flush has not been called. *)
FlIdle ==
    /\ fl_pc = "idle"
    /\ fl_ret = "none"


(* The copy loop has not been entered. *)
CpIdle ==
    /\ cp_pc = "idle"
    /\ cp_img = <<>>
    /\ cp_plane = 0
    /\ cp_dest = 0
    /\ cp_out = <<>>
    /\ cp_rows = <<>>
    /\ cp_ub = FALSE

---------------------------------------------------------------------------
(* The engine's interface as the element uses it. *)

(* de265_error as the element tells the values apart: DE265_OK,            *)
(* DE265_ERROR_WAITING_FOR_INPUT_DATA, DE265_ERROR_IMAGE_BUFFER_FULL, any  *)
(* other error code (below 1000), and a warning code (1000 or above).      *)
DE265_OK == "OK"
DE265_ERROR_WAITING_FOR_INPUT_DATA == "WAITING_FOR_INPUT_DATA"
DE265_ERROR_IMAGE_BUFFER_FULL == "IMAGE_BUFFER_FULL"
DE265_ERROR_OTHER == "ERROR"
DE265_WARNING == "WARNING"

de265_error ==
    {DE265_OK, DE265_ERROR_WAITING_FOR_INPUT_DATA,
     DE265_ERROR_IMAGE_BUFFER_FULL, DE265_ERROR_OTHER, DE265_WARNING}

(* What a push call (de265_push_NAL, de265_push_data) may return. *)
PushResults == {DE265_OK, DE265_ERROR_OTHER, DE265_WARNING}

(* de265_isOK: DE265_OK or a warning. *)
de265_isOK(err) == err \in {DE265_OK, DE265_WARNING}

(* data[k], k counted from 0.  A byte past the end of the buffer is not    *)
(* the program's to read; -1 stands for whatever lies there.               *)
At(data, k) == IF k >= 0 /\ k < Len(data) THEN data[k + 1] ELSE -1

(* The n bytes at data + off. *)
Slice(data, off, n) == [k \in 1..n |-> At(data, off + k - 1)]

(* One call of the engine: the operation, the byte range handed over       *)
(* (offset in the mapped buffer, length, the bytes), the timestamp and     *)
(* the status the engine returned.                                         *)
EngCall(op, off, len, data, pts, res) ==
    [op |-> op, off |-> off, len |-> len, bytes |-> Slice(data, off, len),
     pts |-> pts, res |-> res]

EngSignal(op) == EngCall(op, 0, 0, <<>>, 0, DE265_OK)

(* de265_decode is called in a loop; the log keeps one entry for a run of  *)
(* calls, with the status err of the last of them.                         *)
LogDecode(log, err) ==
    IF Len(log) > 0 /\ log[Len(log)].op = "decode"
    THEN [log EXCEPT ![Len(log)].res = err]
    ELSE Append(log, [EngSignal("decode") EXCEPT !.res = err])

(* The switch on err in the pump of set_format and of flush with every     *)
(* status but DE265_OK, buffer-full and waiting-for-input failing the      *)
(* call.                                                                   *)
PumpFatal_strict(err) ==
    err \notin {DE265_OK, DE265_ERROR_IMAGE_BUFFER_FULL,
                DE265_ERROR_WAITING_FOR_INPUT_DATA}

(* The switch on err in the pump of set_format and of flush: the default   *)
(* branch fails the call if (!de265_isOK (err)).                           *)
PumpFatal(err) ==
    err \notin {DE265_OK, DE265_ERROR_IMAGE_BUFFER_FULL,
                DE265_ERROR_WAITING_FOR_INPUT_DATA}
    /\ ~de265_isOK(err)

(* The same switch: more = 0 on buffer-full and waiting-for-input, and the *)
(* loop goes on while (more).                                              *)
PumpAgain(err, more) == more /\ err \in {DE265_OK, DE265_WARNING}

---------------------------------------------------------------------------
(* gst_libde265_dec_set_format. *)

SfIdle ==
    /\ sf_pc = "idle"
    /\ sf_data = <<>>
    /\ sf_mapped = FALSE
    /\ sf_pos = 0
    /\ sf_i = 0
    /\ sf_j = 0
    /\ sf_num_param_sets = 0
    /\ sf_nal_count = 0
    /\ sf_oob = FALSE
    /\ sf_ret = "none"

(* IsHvcC testing data[2] > 0: 00 00 01 is no start code. *)
IsHvcC_byte2(data) ==
    Len(data) > 3 /\ (At(data, 0) # 0 \/ At(data, 1) # 0 \/ At(data, 2) > 0)

(* IsHvcC testing data[2] != 1: only 00 00 01 is a start code. *)
IsHvcC_only001(data) ==
    Len(data) > 3 /\ (At(data, 0) # 0 \/ At(data, 1) # 0 \/ At(data, 2) # 1)

(* size > 3 && (data[0] || data[1] || data[2] > 1): the record is in the   *)
(* "hvcC" format.                                                          *)
IsHvcC(data) ==
    Len(data) > 3 /\ (At(data, 0) # 0 \/ At(data, 1) # 0 \/ At(data, 2) > 1)

(* BigEndian16 with the two bytes swapped. *)
BigEndian16_swapped(data, pos) == At(data, pos) + At(data, pos + 1) * 256

(* data[pos] << 8 | data[pos + 1] *)
BigEndian16(data, pos) == At(data, pos) * 256 + At(data, pos + 1)

(* LengthSizeField without the mask. *)
LengthSizeField_unmasked(data) == At(data, 21) + 1

(* (data[21] & 3) + 1 *)
LengthSizeField(data) == (At(data, 21) % 4) + 1

(* NalUnderrun off by one: a unit may end one byte past the buffer. *)
NalUnderrun_late(pos, nal_size, size) == pos + 2 + nal_size > size + 1

(* The three underrun tests of the parameter-set loop. *)
HeaderUnderrun(pos, size) == pos + 3 > size
NalHeaderUnderrun(pos, size) == pos + 2 > size
NalUnderrun(pos, nal_size, size) == pos + 2 + nal_size > size

(* GST_ELEMENT_ERROR (...); return FALSE; from inside the parameter-set    *)
(* loop: the codec-data buffer stays mapped.                               *)
SetFormatFail(msg, oob) ==
    /\ host' = Append(host, msg)
    /\ sf_ret' = "FALSE"
    /\ sf_pc' = "done"
    /\ sf_oob' = (sf_oob \/ oob)
    /\ UNCHANGED <<decVars, eng, sf_data, sf_mapped, sf_pos, sf_i, sf_j,
                   sf_num_param_sets, sf_nal_count>>

(* The call with a codec_data buffer in the caps: the buffer is mapped     *)
(* (map_ok), copied to dec->codec_data and classified; a raw record is     *)
(* pushed whole, the engine answering err.                                 *)
SetFormat(data, map_ok, err) ==
    LET size == Len(data)
        hvcc == IsHvcC(data)
        parse == hvcc /\ size > 22
        rawfail == ~hvcc /\ ~de265_isOK(err)
    IN
    /\ sf_pc \in {"idle", "done"}
    /\ hf_pc \in {"idle", "done"}
    /\ fl_pc \in {"idle", "done"}
    /\ IF ~map_ok
       THEN /\ host' = <<"error: Failed to map codec data">>
            /\ eng' = <<>>
            /\ sf_ret' = "FALSE"
            /\ sf_pc' = "done"
            /\ sf_data' = <<>>
            /\ sf_mapped' = FALSE
            /\ sf_oob' = FALSE
            /\ UNCHANGED <<decVars, sf_pos, sf_i, sf_j, sf_num_param_sets,
                           sf_nal_count>>
       ELSE /\ sf_data' = data
            /\ codec_data' = data
            /\ ctx' = ctx
            /\ mode' = IF hvcc THEN GST_TYPE_LIBDE265_DEC_PACKETIZED
                       ELSE GST_TYPE_LIBDE265_DEC_RAW
            /\ length_size' = IF parse THEN LengthSizeField(data)
                              ELSE length_size
            /\ sf_num_param_sets' = IF parse THEN At(data, 22) ELSE 0
            /\ sf_pos' = IF parse THEN 23 ELSE 0
            /\ sf_i' = 0
            /\ sf_j' = 0
            /\ sf_nal_count' = 0
            /\ sf_oob' = \/ (size <= 2 /\ hvcc)
                         \/ (parse /\ size <= 22)
            /\ host' = IF parse /\ At(data, 0) # 0
                       THEN <<"warning: Unsupported extra data version">>
                       ELSE IF rawfail
                       THEN <<"error: Failed to push codec data">>
                       ELSE <<>>
            /\ eng' = IF hvcc THEN <<>>
                      ELSE <<EngCall("push_data", 0, size, data, 0, err)>>
            /\ sf_mapped' = ~rawfail
            /\ sf_ret' = IF rawfail THEN "FALSE" ELSE "none"
            /\ sf_pc' = IF rawfail THEN "done"
                        ELSE IF parse THEN "array" ELSE "end"
    /\ input_state' = caps_fps
    /\ UNCHANGED <<fps, caps_fps, out_fps>>
    /\ UNCHANGED <<flVars, cpVars, thVars, fmtVars, outVars, hfVars, picVars>>

(* The call with no codec_data in the caps: a "stream-format" of           *)
(* "byte-stream" selects the raw mode; anything else changes nothing.      *)
SetFormatNoCodecData(stream_format) ==
    /\ sf_pc \in {"idle", "done"}
    /\ hf_pc \in {"idle", "done"}
    /\ fl_pc \in {"idle", "done"}
    /\ mode' = IF stream_format = "byte-stream"
               THEN GST_TYPE_LIBDE265_DEC_RAW ELSE mode
    /\ eng' = <<>>
    /\ host' = <<>>
    /\ sf_ret' = "TRUE"
    /\ sf_pc' = "done"
    /\ sf_data' = <<>>
    /\ sf_oob' = FALSE
    /\ input_state' = caps_fps
    /\ UNCHANGED <<length_size, codec_data, ctx, sf_mapped, sf_pos, sf_i, sf_j,
                   sf_num_param_sets, sf_nal_count>>
    /\ UNCHANGED <<fps, caps_fps, out_fps>>
    /\ UNCHANGED <<flVars, cpVars, thVars, fmtVars, outVars, hfVars, picVars>>

(* for (i = 0; i < num_param_sets; i++): the test, the array header. *)
SetFormatArray ==
    LET size == Len(sf_data) IN
    /\ sf_pc = "array"
    /\ IF sf_i < sf_num_param_sets
       THEN IF HeaderUnderrun(sf_pos, size)
            THEN SetFormatFail("error: Buffer underrun in extra header",
                               FALSE)
            ELSE /\ sf_nal_count' = BigEndian16(sf_data, sf_pos + 1)
                 /\ sf_pos' = sf_pos + 3
                 /\ sf_j' = 0
                 /\ sf_pc' = "nal"
                 /\ sf_oob' = (sf_oob \/ sf_pos + 2 >= size)
                 /\ UNCHANGED <<decVars, envVars, sf_data, sf_mapped, sf_i,
                                sf_num_param_sets, sf_ret>>
       ELSE /\ sf_pc' = "end"
            /\ UNCHANGED <<decVars, envVars, sf_data, sf_mapped, sf_pos,
                           sf_i, sf_j, sf_num_param_sets, sf_nal_count,
                           sf_oob, sf_ret>>
    /\ UNCHANGED <<fpsVars, flVars, cpVars, thVars, fmtVars, outVars, hfVars, picVars>>

(* for (j = 0; j < nal_count; j++): the test, one unit: its length field,  *)
(* the push (the engine answering err), pos += 2 + nal_size.               *)
SetFormatNal(err) ==
    LET size == Len(sf_data)
        nal_size == BigEndian16(sf_data, sf_pos)
    IN
    /\ sf_pc = "nal"
    /\ IF sf_j < sf_nal_count
       THEN IF NalHeaderUnderrun(sf_pos, size)
            THEN SetFormatFail("error: Buffer underrun in extra nal header",
                               FALSE)
            ELSE IF NalUnderrun(sf_pos, nal_size, size)
            THEN SetFormatFail("error: Buffer underrun in extra nal",
                               sf_pos + 1 >= size)
            ELSE /\ eng' = Append(eng, EngCall("push_NAL", sf_pos + 2,
                                               nal_size, sf_data, 0, err))
                 /\ sf_oob' = (sf_oob \/ sf_pos + 1 >= size)
                 /\ IF ~de265_isOK(err)
                    THEN /\ host' = Append(host, "error: Failed to push data")
                         /\ sf_ret' = "FALSE"
                         /\ sf_pc' = "done"
                         /\ UNCHANGED <<sf_pos, sf_j>>
                    ELSE /\ sf_pos' = sf_pos + 2 + nal_size
                         /\ sf_j' = sf_j + 1
                         /\ UNCHANGED <<host, sf_ret, sf_pc>>
                 /\ UNCHANGED <<decVars, sf_data, sf_mapped, sf_i,
                                sf_num_param_sets, sf_nal_count>>
       ELSE /\ sf_i' = sf_i + 1
            /\ sf_pc' = "array"
            /\ UNCHANGED <<decVars, envVars, sf_data, sf_mapped, sf_pos,
                           sf_j, sf_num_param_sets, sf_nal_count, sf_oob,
                           sf_ret>>
    /\ UNCHANGED <<fpsVars, flVars, cpVars, thVars, fmtVars, outVars, hfVars, picVars>>

(* gst_buffer_unmap (buf, &info); de265_push_end_of_NAL (dec->ctx); *)
SetFormatEnd ==
    /\ sf_pc = "end"
    /\ sf_mapped' = FALSE
    /\ eng' = Append(eng, EngSignal("push_end_of_NAL"))
    /\ sf_pc' = "pump"
    /\ UNCHANGED <<decVars, host, sf_data, sf_pos, sf_i, sf_j,
                   sf_num_param_sets, sf_nal_count, sf_oob, sf_ret>>
    /\ UNCHANGED <<fpsVars, flVars, cpVars, thVars, fmtVars, outVars, hfVars, picVars>>

(* One turn of do { err = de265_decode (dec->ctx, &more); ... } while      *)
(* (more): the engine answers err and more.                                *)
SetFormatPump(err, more) ==
    LET fatal == PumpFatal(err)
        again == PumpAgain(err, more)
    IN
    /\ sf_pc = "pump"
    /\ eng' = LogDecode(eng, err)
    /\ host' = IF fatal THEN Append(host, "error: Failed to decode codec data")
               ELSE host
    /\ sf_ret' = IF fatal THEN "FALSE" ELSE IF again THEN "none" ELSE "TRUE"
    /\ sf_pc' = IF fatal \/ ~again THEN "done" ELSE "pump"
    /\ UNCHANGED <<decVars, sf_data, sf_mapped, sf_pos, sf_i, sf_j,
                   sf_num_param_sets, sf_nal_count, sf_oob>>
    /\ UNCHANGED <<fpsVars, flVars, cpVars, thVars, fmtVars, outVars, hfVars, picVars>>

---------------------------------------------------------------------------
(* The host's frames and the engine's pictures. *)

(* _gst_libde265_dec_reset_decoder: the fields of the output side. *)
OutInit ==
    /\ frame_number = -1
    /\ buffer_full = 0
    /\ width = -1
    /\ height = -1
    /\ output_state = "NULL"

(* GstFlowReturn, the values that occur. *)
GST_FLOW_OK == "GST_FLOW_OK"
GST_FLOW_ERROR == "GST_FLOW_ERROR"
GST_FLOW_FLUSHING == "GST_FLOW_FLUSHING"

FlowReturns == {GST_FLOW_OK, GST_FLOW_ERROR, GST_FLOW_FLUSHING}

(* A GstVideoCodecFrame as the base class hands it to handle_frame: one    *)
(* reference is the base class's list of pending frames, one is the        *)
(* handler's.  Frame n is frames[n + 1].  given lists the FrameRefs whose  *)
(* buffer was made the frame's output buffer.                              *)
NewFrame(pts) ==
    [refs |-> 2, pending |-> TRUE, decode_only |-> FALSE, outbuf |-> FALSE,
     finished |-> 0, pts |-> pts, out |-> "none", given |-> <<>>]

(* gst_video_codec_frame_unref, gst_video_codec_frame_ref *)
FrameUnref(fs, n) == [fs EXCEPT ![n + 1].refs = @ - 1]
FrameRef(fs, n) == [fs EXCEPT ![n + 1].refs = @ + 1]

(* GET_FRAME (base, n): the pending frame of that number, or NULL. *)
FramePending(fs, n) == n >= 0 /\ n < Len(fs) /\ fs[n + 1].pending

(* FINISH_FRAME: the frame leaves the list of pending frames, the caller's *)
(* reference and the list's are dropped, the output buffer goes            *)
(* downstream.                                                             *)
FinishFrame(fs, n) ==
    [fs EXCEPT ![n + 1] =
        [@ EXCEPT !.refs = @ - (IF fs[n + 1].pending THEN 2 ELSE 1),
                  !.pending = FALSE,
                  !.finished = @ + 1]]

(* The engine's picture slots.  st: free (no buffer), decoding (a buffer   *)
(* is allocated), ready (in the output queue), out (handed out by          *)
(* de265_get_next_picture).  ud is plane 0's user data: 0 for NULL, else   *)
(* the FrameRef's index in refs.  own tells whose buffer the planes are.   *)
Slots == {1, 2}

NoPicture ==
    [alignment |-> 1, width |-> 0, height |-> 0, visible_width |-> 0,
     visible_height |-> 0, chroma |-> de265_chroma_mono, bpp |-> <<0, 0, 0>>]

FreeSlot ==
    [st |-> "free", ud |-> 0, own |-> "none", pic |-> NoPicture, pts |-> 0]

NoGetBuffer == [called |-> FALSE, calls |-> 0]
NoReleaseBuffer == [called |-> FALSE]

PicInit ==
    /\ slots = [s \in Slots |-> FreeSlot]
    /\ outq = <<>>
    /\ refs = <<>>
    /\ frames = <<>>
    /\ gb = NoGetBuffer
    /\ rb = NoReleaseBuffer

(* No thread is in a callback or in the delivery of a picture. *)
NoCallback == [op |-> "none", ref |-> 0]

ThIdle ==
    /\ th_pc = 0
    /\ th_slot = 0
    /\ th_cb = [s \in Slots |-> NoCallback]
    /\ th_writes = {}

---------------------------------------------------------------------------
(* gst_libde265_dec_handle_frame. *)

HfIdle ==
    /\ hf_pc = "idle"
    /\ hf_frame = -1
    /\ hf_data = <<>>
    /\ hf_pts = 0
    /\ hf_mapped = FALSE
    /\ hf_start = 0
    /\ hf_ub = FALSE
    /\ hf_ret = "none"

(* (x << 8) | b in an int of 32 bits, two's complement: the low 24 bits of *)
(* x move up, bit 23 becomes the sign.                                     *)
ShiftIn(x, b) ==
    LET low == x % 16777216 IN
    (IF low >= 8388608 THEN low - 16777216 ELSE low) * 256 + b

(* NalSize reading the prefix as a little-endian number. *)
RECURSIVE NalSize_little(_, _, _)
NalSize_little(data, start, n) ==
    IF n = 0 THEN 0
    ELSE ShiftIn(NalSize_little(data, start + 1, n - 1), At(data, start))

(* int nal_size = 0; for (i = 0; i < n; i++) nal_size = (nal_size << 8) |  *)
(* start_data[i];                                                          *)
RECURSIVE NalSize(_, _, _)
NalSize(data, start, n) ==
    IF n = 0 THEN 0
    ELSE ShiftIn(NalSize(data, start, n - 1), At(data, start + n - 1))

(* NalOverflow off by one: a NAL may end one byte past the chunk. *)
NalOverflow_late(start, n, nal_size, size) == start + n + nal_size > size + 1

(* start_data + dec->length_size + nal_size > end_data *)
NalOverflow(start, n, nal_size, size) == start + n + nal_size > size

(* HandleFrameErrorInput that posts the error and goes on to the pump. *)
HandleFrameErrorInput_goes_on(msg) ==
    /\ host' = Append(host, msg)
    /\ hf_mapped' = FALSE
    /\ hf_ret' = "none"
    /\ hf_pc' = "pump"

(* GST_ELEMENT_ERROR (...); goto error_input; *)
HandleFrameErrorInput(msg) ==
    /\ host' = Append(host, msg)
    /\ hf_mapped' = FALSE
    /\ hf_ret' = GST_FLOW_ERROR
    /\ hf_pc' = "done"

(* The start of the call, up to the packetized loop or past the one push   *)
(* of the other two branches: the input buffer is mapped (map_ok); the     *)
(* engine answers err to de265_push_data or de265_push_end_of_stream.      *)
HandleFrame(data, pts, map_ok, err) ==
    LET size == Len(data)
        n == Len(frames)
        packetized == size > 0 /\ mode = GST_TYPE_LIBDE265_DEC_PACKETIZED
        call == IF size > 0
                THEN EngCall("push_data", 0, size, data, pts, err)
                ELSE EngSignal("push_end_of_stream")
        msg == IF size > 0 THEN "error: Error while pushing data"
               ELSE "error: Error while flushing data"
    IN
    /\ hf_pc \in {"idle", "done"}
    /\ sf_pc \in {"idle", "done"}
    /\ fl_pc \in {"idle", "done"}
    /\ n < MaxFrames
    /\ hf_frame' = n
    /\ hf_data' = IF map_ok THEN data ELSE <<>>
    /\ hf_pts' = pts
    /\ hf_start' = 0
    /\ hf_ub' = FALSE
    /\ frames' = Append(frames, [NewFrame(pts) EXCEPT !.decode_only = map_ok])
    /\ IF ~map_ok
       THEN /\ eng' = <<>>
            /\ host' = <<>>
            /\ hf_mapped' = FALSE
            /\ hf_ret' = GST_FLOW_ERROR
            /\ hf_pc' = "done"
            /\ UNCHANGED frame_number
       ELSE IF packetized
       THEN /\ eng' = <<>>
            /\ host' = <<>>
            /\ hf_mapped' = TRUE
            /\ hf_ret' = "none"
            /\ hf_pc' = "nal"
            /\ UNCHANGED frame_number
       ELSE IF err # DE265_OK
       THEN /\ eng' = <<[call EXCEPT !.res = err]>>
            /\ host' = <<msg>>
            /\ hf_mapped' = FALSE
            /\ hf_ret' = GST_FLOW_ERROR
            /\ hf_pc' = "done"
            /\ UNCHANGED frame_number
       ELSE /\ eng' = <<call>>
            /\ host' = <<>>
            /\ hf_mapped' = FALSE
            /\ hf_ret' = "none"
            /\ hf_pc' = "pump"
            /\ frame_number' = n
    /\ UNCHANGED <<buffer_full, width, height, output_state>>
    /\ UNCHANGED <<slots, outq, refs, gb, rb>>
    /\ UNCHANGED <<fpsVars, flVars, cpVars, thVars, fmtVars, decVars, sfVars>>

(* NalPts giving the chunk's timestamp to the first NAL of the chunk only. *)
NalPts_first(start, pts) == IF start = 0 THEN pts ELSE 0

(* The timestamp de265_push_NAL is given for the NAL whose length prefix   *)
(* is at offset start of the chunk: pts, for every NAL.                    *)
NalPts(start, pts) == pts

(* while (start_data + dec->length_size <= end_data): the test, and one    *)
(* turn: the length, the overflow test, the push (the engine answering     *)
(* err), the advance.  When the test fails the input buffer is unmapped    *)
(* and dec->frame_number is set.  A start_data below frame_data makes the  *)
(* turn read outside the buffer: the behaviour is undefined from there.    *)
(* A loop that does not advance is followed for MaxChunk + 1 pushes.       *)
HandleFrameNal(err) ==
    LET size == Len(hf_data)
        nal_size == NalSize(hf_data, hf_start, length_size)
    IN
    /\ hf_pc = "nal"
    /\ Len(eng) <= MaxChunk
    /\ IF hf_start + length_size <= size
       THEN IF hf_start < 0
            THEN /\ hf_ub' = TRUE
                 /\ hf_pc' = "done"
                 /\ UNCHANGED <<envVars, hf_mapped, hf_ret, hf_start,
                                frame_number>>
            ELSE IF NalOverflow(hf_start, length_size, nal_size, size)
            THEN /\ HandleFrameErrorInput(
                        "error: Overflow in input data, check data mode")
                 /\ UNCHANGED <<eng, hf_start, hf_ub, frame_number>>
            ELSE IF err # DE265_OK
            THEN /\ eng' = Append(eng, EngCall("push_NAL",
                                   hf_start + length_size, nal_size, hf_data,
                                   NalPts(hf_start, hf_pts), err))
                 /\ HandleFrameErrorInput("error: Error while pushing data")
                 /\ UNCHANGED <<hf_start, hf_ub, frame_number>>
            ELSE /\ eng' = Append(eng, EngCall("push_NAL",
                                   hf_start + length_size, nal_size, hf_data,
                                   NalPts(hf_start, hf_pts), err))
                 /\ hf_start' = hf_start + length_size + nal_size
                 /\ UNCHANGED <<host, hf_mapped, hf_ret, hf_pc, hf_ub,
                                frame_number>>
       ELSE /\ hf_mapped' = FALSE
            /\ frame_number' = hf_frame
            /\ hf_pc' = "pump"
            /\ UNCHANGED <<envVars, hf_ret, hf_start, hf_ub>>
    /\ UNCHANGED <<hf_frame, hf_data, hf_pts>>
    /\ UNCHANGED <<buffer_full, width, height, output_state>>
    /\ UNCHANGED <<fpsVars, flVars, cpVars, thVars, fmtVars, decVars, sfVars, picVars>>

(* One turn of do { ret = de265_decode (dec->ctx, &more); } while (more && *)
(* ret == DE265_OK), and after the last turn the switch on ret.            *)
HandleFramePump(err, more) ==
    LET again == more /\ err = DE265_OK
        fatal == err \notin {DE265_OK, DE265_ERROR_WAITING_FOR_INPUT_DATA,
                             DE265_ERROR_IMAGE_BUFFER_FULL}
        full == err = DE265_ERROR_IMAGE_BUFFER_FULL
    IN
    /\ hf_pc = "pump"
    /\ eng' = LogDecode(eng, err)
    /\ buffer_full' = IF full THEN 1 ELSE buffer_full
    /\ host' = IF fatal THEN Append(host, "error: Error while decoding")
               ELSE host
    /\ hf_ret' = IF fatal THEN GST_FLOW_ERROR
                 ELSE IF full /\ outq = <<>> THEN GST_FLOW_OK
                 ELSE "none"
    /\ hf_pc' = IF again THEN "pump"
                ELSE IF fatal \/ (full /\ outq = <<>>) THEN "done"
                ELSE "warn"
    /\ UNCHANGED <<hf_frame, hf_data, hf_pts, hf_mapped, hf_start, hf_ub>>
    /\ UNCHANGED <<frame_number, width, height, output_state>>
    /\ UNCHANGED <<fpsVars, flVars, cpVars, thVars, fmtVars, decVars, sfVars, picVars>>

(* HandleFrameWarning that drains the warnings and posts none of them. *)
HandleFrameWarning_silent(w) ==
    /\ hf_pc = "warn"
    /\ w # DE265_OK => Len(host) < MaxWarnings
    /\ eng' = Append(eng, [EngSignal("get_warning") EXCEPT !.res = w])
    /\ hf_pc' = IF w # DE265_OK THEN "warn" ELSE "picture"
    /\ UNCHANGED <<host, hf_frame, hf_data, hf_pts, hf_mapped, hf_start,
                   hf_ub, hf_ret>>
    /\ UNCHANGED <<fpsVars, flVars, cpVars, thVars, fmtVars, decVars,
                   outVars, sfVars, picVars>>

(* while ((ret = de265_get_warning (dec->ctx)) != DE265_OK): one call; the *)
(* engine answers w, DE265_OK when no warning is left.                     *)
HandleFrameWarning(w) ==
    /\ hf_pc = "warn"
    /\ w # DE265_OK => Len(host) < MaxWarnings
    /\ eng' = Append(eng, [EngSignal("get_warning") EXCEPT !.res = w])
    /\ host' = IF w # DE265_OK THEN Append(host, "warning: engine warning")
               ELSE host
    /\ hf_pc' = IF w # DE265_OK THEN "warn" ELSE "picture"
    /\ UNCHANGED <<hf_frame, hf_data, hf_pts, hf_mapped, hf_start, hf_ub,
                   hf_ret>>
    /\ UNCHANGED <<fpsVars, flVars, cpVars, thVars, fmtVars, decVars, outVars, sfVars, picVars>>

---------------------------------------------------------------------------
(* The zero-copy bridge: struct GstLibde265FrameRef, get_buffer,           *)
(* release_buffer.                                                         *)

(* The engine runs, and calls back, inside de265_decode. *)
EngineRunning == hf_pc = "pump" \/ sf_pc = "pump" \/ fl_pc = "pump"

(* GST_VIDEO_FORMAT_INFO_BITS of the formats the resolver returns. *)
FormatBits(format) ==
    IF format \in {GST_VIDEO_FORMAT_I420_10LE, GST_VIDEO_FORMAT_I422_10LE,
                   GST_VIDEO_FORMAT_Y444_10LE}
    THEN 10 ELSE 8

(* GST_VIDEO_FRAME_COMP_PSTRIDE of component 0 of a frame mapped with the  *)
(* info of dec->output_state: the bytes of one sample.                     *)
PixelStride(format) == (FormatBits(format) + 7) \div 8

(* (spec->width + spec->alignment - 1) / spec->alignment * spec->alignment *)
AlignedWidth(spec) ==
    ((spec.width + spec.alignment - 1) \div spec.alignment) * spec.alignment

(* The three planes do not share one bit depth. *)
MixedDepths(bpp) == bpp[1] # bpp[2] \/ bpp[1] # bpp[3] \/ bpp[2] # bpp[3]

(* stride % spec->alignment, (uintptr_t) (data) % spec->alignment *)
PlaneMisaligned(hb, i, alignment) ==
    hb.stride[i] % alignment # 0 \/ hb.data[i] % alignment # 0

(* PlaneChecks without the test of the plane's base address. *)
PlaneChecks_nodata(hb, w, h, pstride, alignment) ==
    IF hb.stride[1] < w * pstride \/ hb.height0 < h THEN -1
    ELSE IF hb.stride[1] % alignment # 0 THEN 0
    ELSE IF hb.stride[2] % alignment # 0 THEN 1
    ELSE IF hb.stride[3] % alignment # 0 THEN 2
    ELSE 3

(* PlaneChecks without the test of plane 0's stride against the width. *)
PlaneChecks_nopitch(hb, w, h, pstride, alignment) ==
    IF hb.height0 < h THEN -1
    ELSE IF PlaneMisaligned(hb, 1, alignment) THEN 0
    ELSE IF PlaneMisaligned(hb, 2, alignment) THEN 1
    ELSE IF PlaneMisaligned(hb, 3, alignment) THEN 2
    ELSE 3

(* The checks of the mapped frame: -1 when plane 0's stride or height is   *)
(* too small, else the number of planes handed to the engine with          *)
(* de265_set_image_plane before a misaligned plane stops the loop; 3 when  *)
(* none does.                                                              *)
PlaneChecks(hb, w, h, pstride, alignment) ==
    IF hb.stride[1] < w * pstride \/ hb.height0 < h THEN -1
    ELSE IF PlaneMisaligned(hb, 1, alignment) THEN 0
    ELSE IF PlaneMisaligned(hb, 2, alignment) THEN 1
    ELSE IF PlaneMisaligned(hb, 3, alignment) THEN 2
    ELSE 3

(* ReleasedRef that never unmaps. *)
ReleasedRef_nounmap(ref) ==
    [ref EXCEPT !.buffer = FALSE, !.freed = @ + 1]

(* ReleasedRef that leaves the FrameRef allocated. *)
ReleasedRef_nofree(ref) ==
    [ref EXCEPT !.unmapped = @ + (IF ref.mapped THEN 1 ELSE 0),
                !.buffer = FALSE]

(* gst_libde265_dec_release_frame_ref, what it does to the FrameRef: the   *)
(* frame is unmapped if it is mapped, the buffer is dropped, the FrameRef  *)
(* is freed.                                                               *)
ReleasedRef(ref) ==
    [ref EXCEPT !.unmapped = @ + (IF ref.mapped THEN 1 ELSE 0),
                !.buffer = FALSE,
                !.freed = @ + 1]

(* DeliveredRef that keeps the FrameRef's reference to the buffer. *)
DeliveredRef_keeps(ref) == ref

(* gst_buffer_replace (&ref->buffer, NULL) in the delivery of a picture:   *)
(* the FrameRef gives up its reference to the output buffer.               *)
DeliveredRef(ref) == [ref EXCEPT !.buffer = FALSE]

(* The frame rate of the state gst_video_decoder_set_output_state makes    *)
(* from the reference state: the reference's, or the 0/1 of an initialised *)
(* GstVideoInfo when there is none.                                        *)
ReferenceFps(reference) == IF reference = NoState THEN <<0, 1>> ELSE reference

(* (state->info.fps_n / (float) state->info.fps_d) > 1000, fps_d not 0 *)
TooHigh(f) == IF f[2] > 0 THEN f[1] > 1000 * f[2] ELSE f[1] < 1000 * f[2]

(* _gst_libde265_image_available, the frame rate it leaves in the new      *)
(* output state: the "framerate" property if it is set, 24/1 in place of a *)
(* rate with denominator 0 or above 1000, the reference's otherwise.       *)
OutputFps(override, reference) ==
    IF override[1] > 0 THEN override
    ELSE IF ReferenceFps(reference)[2] = 0 \/ TooHigh(ReferenceFps(reference))
    THEN <<24, 1>>
    ELSE ReferenceFps(reference)

(* gst_libde265_dec_get_buffer, called by the engine for the picture of a  *)
(* free slot, with the host's answers: alloc_ok for ALLOC_OUTPUT_FRAME,    *)
(* map_ok for gst_video_frame_map, hb for the mapped frame's strides,      *)
(* height and plane addresses; def_ok is the default allocator's answer.   *)
GetBuffer(s, spec, hb, alloc_ok, map_ok, def_ok, pts) ==
    LET found == FramePending(frames, frame_number)
        w == AlignedWidth(spec)
        h == spec.height
        clipped == w # spec.visible_width \/ h # spec.visible_height
        mixed == spec.chroma # de265_chroma_mono /\ MixedDepths(spec.bpp)
        format == gst_libde265_get_video_format(spec.chroma, spec.bpp[1])
        eligible == /\ found
                    /\ ~clipped
                    /\ ~mixed
                    /\ format # GST_VIDEO_FORMAT_UNKNOWN
                    /\ FormatBits(format) = spec.bpp[1]
        negotiate == eligible /\ (w # width \/ h # height)
        state == IF negotiate THEN format ELSE output_state
        created == eligible /\ alloc_ok
        mapped == created /\ map_ok
        planes == IF mapped
                  THEN PlaneChecks(hb, w, h, PixelStride(state),
                                   spec.alignment)
                  ELSE -1
        success == planes = 3
        id == Len(refs) + 1
        ref == [frame |-> frame_number, buffer |-> TRUE, mapped |-> mapped,
                unmapped |-> 0, freed |-> 0, zero_copy |-> success]
        fs1 == IF found
               THEN [FrameRef(frames, frame_number)
                        EXCEPT ![frame_number + 1].decode_only = FALSE]
               ELSE frames
        fs2 == IF created
               THEN [fs1 EXCEPT ![frame_number + 1].outbuf = FALSE]
               ELSE fs1
        trace == (IF eligible THEN <<"image_available">> ELSE <<>>)
                 \o (IF negotiate THEN <<"negotiate">> ELSE <<>>)
                 \o (IF eligible THEN <<"alloc_output_frame">> ELSE <<>>)
                 \o (IF created THEN <<"frame_map">> ELSE <<>>)
                 \o (IF created /\ ~success
                     THEN <<"release_frame_ref">> ELSE <<>>)
                 \o (IF ~success THEN <<"default_get_buffer">> ELSE <<>>)
    IN
    /\ EngineRunning
    /\ gb.calls < MaxCalls
    /\ slots[s].st = "free"
    /\ width' = IF negotiate THEN w ELSE width
    /\ height' = IF negotiate THEN h ELSE height
    /\ output_state' = state
    /\ refs' = IF ~created THEN refs
               ELSE IF success THEN Append(refs, ref)
               ELSE Append(refs, ReleasedRef(ref))
    /\ frames' = IF created /\ ~success THEN FrameUnref(fs2, frame_number)
                 ELSE fs2
    /\ slots' = [slots EXCEPT ![s] =
                    IF success
                    THEN [st |-> "decoding", ud |-> id, own |-> "host",
                          pic |-> spec, pts |-> pts]
                    ELSE IF def_ok
                    THEN [st |-> "decoding", ud |-> 0, own |-> "default",
                          pic |-> spec, pts |-> pts]
                    ELSE [slots[s] EXCEPT
                             !.ud = IF planes >= 1 THEN id ELSE @]]
    /\ gb' = [called |-> TRUE, calls |-> gb.calls + 1, slot |-> s,
              spec |-> spec, hb |-> hb,
              pstride |-> PixelStride(state), found |-> found,
              alloc_ok |-> alloc_ok, map_ok |-> map_ok,
              planes_set |-> IF planes > 0 THEN planes ELSE 0,
              zero_copy |-> success, default |-> ~success,
              result |-> IF success \/ def_ok THEN 1 ELSE 0,
              def_ok |-> def_ok, eligible |-> eligible, format |-> format,
              prior |-> [width |-> width, height |-> height,
                         state |-> output_state],
              negotiated |-> negotiate, created |-> created,
              mapped |-> mapped, ref |-> IF created THEN id ELSE 0,
              frame |-> frame_number,
              frame_outbuf |-> found /\ frames'[frame_number + 1].outbuf,
              frame_refs |-> IF found
                             THEN <<frames[frame_number + 1].refs,
                                    frames'[frame_number + 1].refs>>
                             ELSE <<>>,
              trace |-> trace]
    /\ out_fps' = IF negotiate THEN OutputFps(fps, input_state) ELSE out_fps
    /\ UNCHANGED <<fps, caps_fps, input_state>>
    /\ UNCHANGED <<frame_number, buffer_full, outq, rb>>
    /\ UNCHANGED <<flVars, cpVars, thVars, fmtVars, decVars, envVars, sfVars, hfVars>>

(* gst_libde265_dec_release_buffer, called by the engine for a picture it  *)
(* holds a buffer for and has no more use of.                              *)
ReleaseBuffer(s) ==
    LET ref == slots[s].ud IN
    /\ EngineRunning
    /\ slots[s].st \in {"decoding", "out"}
    /\ refs' = IF ref = 0 THEN refs
               ELSE [refs EXCEPT ![ref] = ReleasedRef(refs[ref])]
    /\ frames' = IF ref = 0 THEN frames
                 ELSE FrameUnref(frames, refs[ref].frame)
    /\ slots' = [slots EXCEPT ![s].st = "free", ![s].own = "none"]
    /\ rb' = [called |-> TRUE, slot |-> s, ud |-> ref,
              default |-> ref = 0, touched |-> refs' # refs,
              dropped |-> IF ref # 0 /\ refs[ref].buffer THEN 1 ELSE 0]
    /\ UNCHANGED <<outq, gb>>
    /\ UNCHANGED <<fpsVars, flVars, cpVars, thVars, fmtVars, decVars, outVars, envVars, sfVars, hfVars>>

(* The engine finishes the picture of a slot: it joins the output queue. *)
PictureDecoded(s) ==
    /\ EngineRunning
    /\ slots[s].st = "decoding"
    /\ slots' = [slots EXCEPT ![s].st = "ready"]
    /\ outq' = Append(outq, s)
    /\ UNCHANGED <<refs, frames, gb, rb>>
    /\ UNCHANGED <<fpsVars, flVars, cpVars, thVars, fmtVars, decVars, outVars, envVars, sfVars, hfVars>>

---------------------------------------------------------------------------
(* gst_libde265_dec_handle_frame, from de265_get_next_picture on. *)

(* The branch of the copy loop a plane takes. *)
PlaneBranch(plane_bits_per_pixel, max_bits_per_pixel) ==
    IF plane_bits_per_pixel > max_bits_per_pixel /\ max_bits_per_pixel > 8
    THEN "narrow16"
    ELSE IF plane_bits_per_pixel > max_bits_per_pixel
            /\ max_bits_per_pixel = 8
    THEN "narrow8"
    ELSE IF plane_bits_per_pixel < max_bits_per_pixel
            /\ plane_bits_per_pixel > 8
    THEN "shift16"
    ELSE IF plane_bits_per_pixel < max_bits_per_pixel
            /\ plane_bits_per_pixel = 8
    THEN "widen8"
    ELSE "copy"

Max(a, b) == IF a > b THEN a ELSE b

(* img = de265_get_next_picture (dec->ctx) and what follows: no picture,   *)
(* the delivery of a picture that carries a FrameRef, or the copy of a     *)
(* picture that carries none (alloc_ok for ALLOC_OUTPUT_FRAME, map_ok for  *)
(* gst_buffer_map); flow is what FINISH_FRAME returns.                     *)
HandleFramePicture(alloc_ok, map_ok, flow) ==
    LET s == Head(outq)
        ref == slots[s].ud
        pic == slots[s].pic
        bits_per_pixel == Max(Max(pic.bpp[1], pic.bpp[2]), pic.bpp[3])
        format == gst_libde265_get_video_format(pic.chroma, bits_per_pixel)
        negotiate == pic.visible_width # width
                     \/ pic.visible_height # height
        max_bits_per_pixel == FormatBits(format)
        out_frame == refs[ref].frame
        fs1 == FrameRef(FrameUnref(frames, hf_frame), out_frame)
        copied == [k \in 1..3 |->
                     PlaneBranch(pic.bpp[k], max_bits_per_pixel)]
    IN
    /\ hf_pc = "picture"
    /\ hf_pc' = "done"
    /\ eng' = Append(eng, EngSignal("get_next_picture"))
    /\ IF outq = <<>>
       THEN /\ frames' = FrameUnref(frames, hf_frame)
            /\ hf_ret' = GST_FLOW_OK
            /\ UNCHANGED <<slots, outq, refs, width, height, output_state>>
       ELSE /\ outq' = Tail(outq)
            /\ slots' = [slots EXCEPT ![s].st = "out"]
            /\ IF ref # 0
               THEN /\ frames' = FinishFrame(
                           [fs1 EXCEPT ![out_frame + 1].outbuf =
                                           refs[ref].buffer,
                                       ![out_frame + 1].given =
                                           IF refs[ref].buffer
                                           THEN Append(@, ref) ELSE @,
                                       ![out_frame + 1].pts = slots[s].pts,
                                       ![out_frame + 1].out = "zero-copy"],
                           out_frame)
                    /\ refs' = [refs EXCEPT ![ref] = DeliveredRef(@)]
                    /\ hf_ret' = flow
                    /\ UNCHANGED <<width, height, output_state>>
               ELSE IF format = GST_VIDEO_FORMAT_UNKNOWN
               THEN /\ frames' = [frames EXCEPT
                                     ![hf_frame + 1].decode_only = FALSE]
                    /\ hf_ret' = GST_FLOW_ERROR
                    /\ UNCHANGED <<refs, width, height, output_state>>
               ELSE /\ width' = pic.visible_width
                    /\ height' = pic.visible_height
                    /\ output_state' = IF negotiate THEN format
                                       ELSE output_state
                    /\ UNCHANGED refs
                    /\ IF ~alloc_ok \/ ~map_ok
                       THEN /\ frames' = [frames EXCEPT
                                   ![hf_frame + 1].decode_only = FALSE,
                                   ![hf_frame + 1].outbuf = alloc_ok]
                            /\ hf_ret' = GST_FLOW_ERROR
                       ELSE /\ frames' = FinishFrame(
                                   [frames EXCEPT
                                       ![hf_frame + 1].decode_only = FALSE,
                                       ![hf_frame + 1].outbuf = TRUE,
                                       ![hf_frame + 1].pts = slots[s].pts,
                                       ![hf_frame + 1].out = copied],
                                   hf_frame)
                            /\ hf_ret' = flow
    /\ out_fps' = IF /\ outq # <<>>
                      /\ ref = 0
                      /\ format # GST_VIDEO_FORMAT_UNKNOWN
                      /\ negotiate
                   THEN OutputFps(fps, input_state)
                   ELSE out_fps
    /\ UNCHANGED <<fps, caps_fps, input_state>>
    /\ UNCHANGED <<frame_number, buffer_full, host, gb, rb>>
    /\ UNCHANGED <<hf_frame, hf_data, hf_pts, hf_mapped, hf_start, hf_ub>>
    /\ UNCHANGED <<flVars, cpVars, thVars, fmtVars, decVars, sfVars>>

---------------------------------------------------------------------------
(* The resolver specification: the arguments are drawn, the function is    *)
(* applied once.                                                           *)

FmtInit ==
    FmtArgs /\ DecInit /\ OutInit /\ EnvInit /\ SfIdle /\ HfIdle /\ PicInit
    /\ FpsInit /\ FlIdle /\ CpIdle /\ ThIdle

FmtNext == ResolveFormat

SpecFmt == FmtInit /\ [][FmtNext]_vars

---------------------------------------------------------------------------
(* The configuration specification: one set_format call on a started       *)
(* session, with every configuration record of the bounded set below.      *)

CfgBytes == {0, 1, 2}

\* bodies of two arrays over the two bytes 0 and 1 may be this much longer
MaxLongBody == MaxBody + 4

(* The bytes from index 22 on: the array count and the arrays.  Every      *)
(* string of up to MaxBody bytes, and the longer ones that announce two    *)
(* arrays and go on with the bytes 0 and 1.                                *)
CfgBodies ==
    UNION {[1..n -> CfgBytes] : n \in 0..MaxBody}
    \cup UNION {{<<2>> \o t : t \in [1..n -> {0, 1}]} :
                  n \in MaxBody..(MaxLongBody - 1)}

CfgShortBodies == {<<>>, <<0>>, <<1>>}

(* The first four bytes: the two start codes, and three records that are   *)
(* not start codes (byte 2 above 1, byte 0 set, byte 1 set).               *)
CfgHeads ==
    {<<0, 0, 0, 0>>, <<0, 0, 0, 1>>, <<0, 0, 1, 0>>, <<0, 0, 2, 0>>,
     <<1, 0, 0, 0>>, <<0, 1, 0, 0>>}

(* A record: bytes 0..3, bytes 4..20 (zero), byte 21, the bytes from 22. *)
CfgRecord(head, b21, body) == head \o [k \in 1..17 |-> 0] \o <<b21>> \o body

(* A record of version 0 whose byte 21 holds 2, with one array of one unit *)
(* of ten bytes.                                                           *)
ExampleRecord ==
    CfgRecord(<<0, 0, 2, 0>>, 2,
              <<1, 32, 0, 1, 0, 10>> \o [k \in 1..10 |-> 1])

CfgRecords ==
    {ExampleRecord}
    \cup {CfgRecord(<<0, 0, 2, 0>>, 2, body) : body \in CfgBodies}
    \cup {CfgRecord(head, b21, body) :
            head \in CfgHeads, b21 \in {0, 1, 255}, body \in CfgShortBodies}
    \cup {SubSeq(CfgRecord(head, 0, <<>>), 1, n) :
            head \in CfgHeads, n \in 0..21}

CfgInit ==
    FmtIdle /\ DecInit /\ OutInit /\ EnvInit /\ SfIdle /\ HfIdle /\ PicInit
    /\ FpsInit /\ FlIdle /\ CpIdle /\ ThIdle

CfgNext ==
    \/ /\ sf_pc = "idle"
       /\ \E data \in CfgRecords, map_ok \in BOOLEAN, err \in PushResults :
              SetFormat(data, map_ok, err)
    \/ /\ sf_pc = "idle"
       /\ \E stream_format \in {"byte-stream", "hvc1", "none"} :
              SetFormatNoCodecData(stream_format)
    \/ SetFormatArray
    \/ \E err \in PushResults : SetFormatNal(err)
    \/ SetFormatEnd
    \/ \E err \in de265_error, more \in BOOLEAN : SetFormatPump(err, more)

SpecCfg == CfgInit /\ [][CfgNext]_vars

---------------------------------------------------------------------------
(* The claims about configuration ingestion. *)

(* The configuration record as the specification lays it out: byte 22 is   *)
(* the array count; an array is 1 header byte, a 2-byte big-endian unit    *)
(* count and the units; a unit is a 2-byte big-endian length and that many *)
(* bytes.  RecUnits reads n units from index pos (counted from 0), and     *)
(* RecArrays n arrays: ok says that all of them fit inside the record,     *)
(* units lists the units that do, in order.                                *)
RECURSIVE RecUnits(_, _, _)
RecUnits(d, pos, n) ==
    IF n = 0 THEN [ok |-> TRUE, pos |-> pos, units |-> <<>>]
    ELSE IF pos + 2 > Len(d)
    THEN [ok |-> FALSE, pos |-> pos, units |-> <<>>]
    ELSE LET len == 256 * d[pos + 1] + d[pos + 2] IN
         IF pos + 2 + len > Len(d)
         THEN [ok |-> FALSE, pos |-> pos, units |-> <<>>]
         ELSE LET rest == RecUnits(d, pos + 2 + len, n - 1) IN
              [ok |-> rest.ok, pos |-> rest.pos,
               units |-> <<[off |-> pos + 2, len |-> len]>> \o rest.units]

RECURSIVE RecArrays(_, _, _)
RecArrays(d, pos, n) ==
    IF n = 0 THEN [ok |-> TRUE, units |-> <<>>]
    ELSE IF pos + 3 > Len(d) THEN [ok |-> FALSE, units |-> <<>>]
    ELSE LET us == RecUnits(d, pos + 3, 256 * d[pos + 2] + d[pos + 3]) IN
         IF ~us.ok THEN [ok |-> FALSE, units |-> us.units]
         ELSE LET rest == RecArrays(d, us.pos, n - 1) IN
              [ok |-> rest.ok, units |-> us.units \o rest.units]

RecStructure(d) ==
    IF Len(d) > 22 THEN RecArrays(d, 23, d[23])
    ELSE [ok |-> TRUE, units |-> <<>>]

(* The first three bytes, <<>> when there are fewer. *)
Head3(d) == IF Len(d) >= 3 THEN SubSeq(d, 1, 3) ELSE <<>>

(* The first three bytes are a start code: 00 00 00 or 00 00 01. *)
RecStartCode(d) == Len(d) >= 3 /\ d[1] = 0 /\ d[2] = 0 /\ d[3] <= 1

(* A set_format call is running, or has returned, on the mapped record. *)
CfgCalled == sf_pc # "idle" /\ sf_data # <<>>

(* A Packetized record with its array count, whose arrays all fit. *)
RecValid(d) == Len(d) > 22 /\ ~RecStartCode(d) /\ RecStructure(d).ok

(* A Packetized record one of whose arrays does not fit. *)
RecTruncated(d) == Len(d) > 22 /\ ~RecStartCode(d) /\ ~RecStructure(d).ok

NalPushes == SelectSeq(eng, LAMBDA c : c.op = "push_NAL")
DataPushes == SelectSeq(eng, LAMBDA c : c.op = "push_data")

(* The pushes made so far are the first units of the list, each with its   *)
(* offset, its length and its bytes.                                       *)
PushesAreFirstOf(units, d) ==
    /\ Len(NalPushes) <= Len(units)
    /\ \A k \in 1..Len(NalPushes) :
          /\ NalPushes[k].off = units[k].off
          /\ NalPushes[k].len = units[k].len
          /\ NalPushes[k].bytes =
                SubSeq(d, units[k].off + 1, units[k].off + units[k].len)

(* C3: for every valid Packetized configuration record, ingestion pushes   *)
(* the parameter-set units encoded in it and nothing else: at each moment  *)
(* the pushes are the first units in array-then-unit order, one push per   *)
(* unit with the unit's declared length and bytes; once the loops are      *)
(* through, every unit has been pushed; the loops stop early only when the *)
(* engine rejects a push.                                                  *)
C3_ValidRecordPushes ==
    (CfgCalled /\ RecValid(sf_data)) =>
        LET units == RecStructure(sf_data).units IN
        /\ DataPushes = <<>>
        /\ PushesAreFirstOf(units, sf_data)
        /\ (sf_pc \in {"end", "pump"} \/ (sf_pc = "done" /\ sf_ret = "TRUE"))
              => Len(NalPushes) = Len(units)
        /\ (sf_pc = "done" /\ Len(NalPushes) < Len(units))
              => /\ NalPushes # <<>>
                 /\ ~de265_isOK(NalPushes[Len(NalPushes)].res)
        /\ \A k \in 1..(Len(NalPushes) - 1) : de265_isOK(NalPushes[k].res)

C3_Witness ==
    /\ CfgCalled /\ RecValid(sf_data)
    /\ sf_pc = "done" /\ sf_ret = "TRUE"
    /\ Len(NalPushes) = 2
    /\ NalPushes[1].bytes = <<1>>
    /\ NalPushes[2].bytes = <<>>
    /\ sf_i = 2

UnderrunErrors ==
    {"error: Buffer underrun in extra header",
     "error: Buffer underrun in extra nal header",
     "error: Buffer underrun in extra nal"}

(* C4: for every Packetized record in which an array header, a length      *)
(* field or a payload extends past the end of the buffer, ingestion fails  *)
(* with a fatal error, the buffer-underrun error unless the engine         *)
(* rejected the push of an earlier, complete unit; no byte at an index >=  *)
(* the record length is read; only complete units that precede the         *)
(* truncation are pushed; neither the end-of-unit marker nor the pump      *)
(* follows.                                                                *)
C4_TruncatedRecordFails ==
    (CfgCalled /\ RecTruncated(sf_data)) =>
        /\ ~sf_oob
        /\ PushesAreFirstOf(RecStructure(sf_data).units, sf_data)
        /\ DataPushes = <<>>
        /\ \A k \in 1..Len(eng) : eng[k].op \notin {"push_end_of_NAL", "decode"}
        /\ sf_pc \notin {"end", "pump"}
        /\ sf_pc = "done" =>
              /\ sf_ret = "FALSE"
              /\ host # <<>>
              /\ \/ host[Len(host)] \in UnderrunErrors
                 \/ /\ host[Len(host)] = "error: Failed to push data"
                    /\ NalPushes # <<>>
                    /\ ~de265_isOK(NalPushes[Len(NalPushes)].res)

C4_Witness ==
    /\ CfgCalled /\ RecTruncated(sf_data)
    /\ sf_pc = "done" /\ sf_ret = "FALSE"
    /\ host[Len(host)] = "error: Buffer underrun in extra nal"
    /\ Len(NalPushes) = 1
    /\ NalPushes[1].bytes = <<1>>
    /\ sf_i = 1

(* C5: for every configuration record longer than three bytes that the     *)
(* call has mapped: if its first three bytes are not a start code the mode *)
(* becomes Packetized and the record is parsed as a structured record (no  *)
(* stream-data push; with the byte at index 22 present, the length-prefix  *)
(* size is taken from byte 21); otherwise the mode becomes RawByteStream   *)
(* and the whole buffer is pushed in one stream-data push, unchanged.      *)
C5_Classification ==
    (CfgCalled /\ Len(sf_data) > 3) =>
        IF ~RecStartCode(sf_data)
        THEN /\ mode = "PACKETIZED"
             /\ DataPushes = <<>>
             /\ Len(sf_data) > 22 => length_size = (sf_data[22] % 4) + 1
        ELSE /\ mode = "RAW"
             /\ NalPushes = <<>>
             /\ Len(DataPushes) = 1
             /\ eng[1].op = "push_data"
             /\ eng[1].off = 0
             /\ eng[1].len = Len(sf_data)
             /\ eng[1].bytes = sf_data

C5_Witness ==
    /\ CfgCalled
    /\ Len(sf_data) > 22
    /\ RecStartCode(sf_data)
    /\ mode = "RAW"
    /\ sf_ret = "TRUE"
    /\ Len(DataPushes) = 1
    /\ DataPushes[1].bytes = sf_data

(* C6 as stated: a record that starts 00 00 00 and is a valid              *)
(* configuration record is classified as Packetized, one that starts       *)
(* 00 00 01 as RawByteStream.                                              *)
C6_Original ==
    CfgCalled =>
        /\ (/\ Head3(sf_data) = <<0, 0, 0>>
            /\ Len(sf_data) > 22
            /\ RecStructure(sf_data).ok) => mode = "PACKETIZED"
        /\ (Len(sf_data) > 3 /\ Head3(sf_data) = <<0, 0, 1>>)
              => mode = "RAW"

(* C6 amended: a record that starts 00 00 00 is classified as              *)
(* RawByteStream whatever its fourth byte and the rest of it are, just as  *)
(* one that starts 00 00 01.                                               *)
C6_StartCodesAreRaw ==
    (CfgCalled /\ Len(sf_data) > 3) =>
        /\ Head3(sf_data) = <<0, 0, 0>> => mode = "RAW"
        /\ Head3(sf_data) = <<0, 0, 1>> => mode = "RAW"

C6_Witness ==
    /\ CfgCalled
    /\ Len(sf_data) > 22
    /\ SubSeq(sf_data, 1, 4) = <<0, 0, 0, 1>>
    /\ RecStructure(sf_data).ok
    /\ mode = "RAW"
    /\ sf_pc = "done"

---------------------------------------------------------------------------
(* The demuxer specification: one handle_frame call on a session whose     *)
(* mode and length-prefix size a set_format call has left, with every      *)
(* chunk of the bounded set below.  The engine produces no picture.        *)

DemuxBytes == {0, 1, 2, 255}

(* A 4-byte prefix that reads as -4 in an int. *)
StuckChunk == <<255, 255, 255, 252>>

DemuxChunks ==
    UNION {[1..n -> DemuxBytes] : n \in 0..MaxChunk} \cup {StuckChunk}

DemuxPts == 7

(* What set_format leaves: the Packetized mode with the length size of     *)
(* byte 21 of the record it kept, or the raw mode of a "byte-stream".      *)
DemuxSession ==
    /\ ctx = "ctx"
    /\ \/ \E n \in 1..4 :
             /\ mode = GST_TYPE_LIBDE265_DEC_PACKETIZED
             /\ length_size = n
             /\ codec_data = CfgRecord(<<0, 0, 2, 0>>, n - 1, <<0>>)
       \/ /\ mode = GST_TYPE_LIBDE265_DEC_RAW
          /\ length_size = 4
          /\ codec_data = NoCodecData

DemuxInit ==
    FmtIdle /\ DemuxSession /\ OutInit /\ EnvInit /\ SfIdle /\ HfIdle
    /\ PicInit /\ FpsInit /\ FlIdle /\ CpIdle /\ ThIdle

DemuxNext ==
    \/ /\ hf_pc = "idle"
       /\ \E data \in DemuxChunks, map_ok \in BOOLEAN, err \in PushResults :
              HandleFrame(data, DemuxPts, map_ok, err)
    \/ \E err \in PushResults : HandleFrameNal(err)
    \/ \E err \in de265_error, more \in BOOLEAN : HandleFramePump(err, more)
    \/ \E w \in {DE265_OK, DE265_WARNING} : HandleFrameWarning(w)
    \/ HandleFramePicture(TRUE, TRUE, GST_FLOW_OK)

SpecDemux == DemuxInit /\ [][DemuxNext]_vars

---------------------------------------------------------------------------
(* The bridge specification: handle_frame calls on a session in the raw    *)
(* mode, the engine allocating, finishing and releasing pictures while a   *)
(* call pumps it.  The engine accepts every chunk and the host every       *)
(* finished frame.                                                         *)

(* struct de265_image_spec with the picture's bit depths: the picture that *)
(* is eligible for zero copy, and pictures that differ from it in one      *)
(* respect.                                                                *)
BaseSpec ==
    [alignment |-> 16, width |-> 16, height |-> 8, visible_width |-> 16,
     visible_height |-> 8, chroma |-> de265_chroma_420, bpp |-> <<8, 8, 8>>]

DeepSpec == [BaseSpec EXCEPT !.bpp = <<10, 10, 10>>]

BridgeSpecs ==
    {BaseSpec, DeepSpec,
     [BaseSpec EXCEPT !.width = 10],
     [BaseSpec EXCEPT !.width = 10, !.visible_width = 10],
     [BaseSpec EXCEPT !.width = 10, !.visible_width = 10, !.alignment = 1],
     [BaseSpec EXCEPT !.visible_height = 6],
     [BaseSpec EXCEPT !.chroma = de265_chroma_mono],
     [BaseSpec EXCEPT !.chroma = de265_chroma_mono, !.bpp = <<8, 10, 10>>],
     [BaseSpec EXCEPT !.chroma = de265_chroma_mono, !.bpp = <<10, 10, 10>>],
     [BaseSpec EXCEPT !.chroma = de265_chroma_422],
     [BaseSpec EXCEPT !.chroma = de265_chroma_444, !.bpp = <<9, 9, 9>>],
     [BaseSpec EXCEPT !.bpp = <<8, 8, 10>>],
     [BaseSpec EXCEPT !.bpp = <<8, 10, 8>>],
     [BaseSpec EXCEPT !.bpp = <<10, 8, 8>>],
     [BaseSpec EXCEPT !.bpp = <<8, 10, 10>>],
     [BaseSpec EXCEPT !.bpp = <<12, 12, 12>>],
     [BaseSpec EXCEPT !.bpp = <<7, 7, 7>>]}

(* The mapped GstVideoFrame: the strides of the three planes, the height   *)
(* of component 0, the addresses of the three planes (modulo 16).          *)
BaseBuffer == [stride |-> <<32, 16, 16>>, height0 |-> 8, data |-> <<0, 0, 0>>]

BridgeBuffers ==
    {BaseBuffer,
     [BaseBuffer EXCEPT !.stride = <<16, 16, 16>>],
     [BaseBuffer EXCEPT !.stride = <<0, 16, 16>>],
     [BaseBuffer EXCEPT !.stride = <<24, 16, 16>>],
     [BaseBuffer EXCEPT !.stride = <<40, 16, 16>>],
     [BaseBuffer EXCEPT !.stride = <<32, 8, 16>>],
     [BaseBuffer EXCEPT !.stride = <<32, 16, 8>>],
     [BaseBuffer EXCEPT !.height0 = 7],
     [BaseBuffer EXCEPT !.data = <<8, 0, 0>>],
     [BaseBuffer EXCEPT !.data = <<0, 8, 0>>],
     [BaseBuffer EXCEPT !.data = <<0, 0, 8>>]}

MisalignedBuffer == [BaseBuffer EXCEPT !.data = <<0, 8, 0>>]

(* The calls of get_buffer the bridge specification tries: the base        *)
(* picture with a buffer that fits, the base picture with a buffer whose   *)
(* second plane is misaligned and a default allocator that fails, and a    *)
(* cropped picture.                                                        *)
BridgeCalls ==
    {[spec |-> BaseSpec, hb |-> BaseBuffer, alloc_ok |-> TRUE,
      map_ok |-> TRUE, def_ok |-> TRUE],
     [spec |-> BaseSpec, hb |-> MisalignedBuffer, alloc_ok |-> TRUE,
      map_ok |-> TRUE, def_ok |-> FALSE],
     [spec |-> [BaseSpec EXCEPT !.visible_height = 6], hb |-> BaseBuffer,
      alloc_ok |-> TRUE, map_ok |-> TRUE, def_ok |-> TRUE]}

BridgeSession ==
    /\ mode = GST_TYPE_LIBDE265_DEC_RAW
    /\ length_size = 4
    /\ codec_data = NoCodecData
    /\ ctx = "ctx"

BridgeInit ==
    FmtIdle /\ BridgeSession /\ OutInit /\ EnvInit /\ SfIdle /\ HfIdle
    /\ PicInit /\ FpsInit /\ FlIdle /\ CpIdle /\ ThIdle

BridgeNext ==
    \/ HandleFrame(<<1>>, DemuxPts, TRUE, DE265_OK)
    \/ \E err \in {DE265_OK, DE265_ERROR_IMAGE_BUFFER_FULL} :
          HandleFramePump(err, FALSE)
    \/ HandleFrameWarning(DE265_OK)
    \/ HandleFramePicture(TRUE, TRUE, GST_FLOW_OK)
    \/ \E s \in Slots, c \in BridgeCalls :
          GetBuffer(s, c.spec, c.hb, c.alloc_ok, c.map_ok, c.def_ok,
                    DemuxPts)
    \/ \E s \in Slots : PictureDecoded(s)
    \/ \E s \in Slots : ReleaseBuffer(s)

SpecBridge == BridgeInit /\ [][BridgeNext]_vars

---------------------------------------------------------------------------
(* The allocation specification: the get_buffer and release_buffer calls   *)
(* the engine makes while one handle_frame call, or one set_format call,   *)
(* pumps it, with every picture and every host buffer of the sets above.   *)

(* The calls of get_buffer tried: every picture with the buffer that fits, *)
(* the two eligible pictures with every buffer, and the base picture with  *)
(* every answer of the host and of the default allocator.                  *)
AllocCalls ==
    {[spec |-> spec, hb |-> BaseBuffer, alloc_ok |-> TRUE, map_ok |-> TRUE,
      def_ok |-> TRUE] : spec \in BridgeSpecs}
    \cup {[spec |-> spec, hb |-> hb, alloc_ok |-> TRUE, map_ok |-> TRUE,
           def_ok |-> TRUE] : spec \in {BaseSpec, DeepSpec},
                              hb \in BridgeBuffers}
    \cup {[spec |-> BaseSpec, hb |-> hb, alloc_ok |-> a, map_ok |-> m,
           def_ok |-> d] : hb \in {BaseBuffer, MisalignedBuffer},
                           a \in BOOLEAN, m \in BOOLEAN, d \in BOOLEAN}

AllocNext ==
    \/ /\ hf_pc = "idle" /\ sf_pc = "idle"
       /\ \E data \in {<<>>, <<1>>}, err \in PushResults :
              HandleFrame(data, DemuxPts, TRUE, err)
    \/ /\ hf_pc = "idle" /\ sf_pc = "idle"
       /\ SetFormat(<<0, 0, 1, 0>>, TRUE, DE265_OK)
    \/ SetFormatEnd
    \/ \E c \in AllocCalls :
          GetBuffer(1, c.spec, c.hb, c.alloc_ok, c.map_ok, c.def_ok,
                    DemuxPts)
    \/ \E s \in Slots : ReleaseBuffer(s)

SpecAlloc == BridgeInit /\ [][AllocNext]_vars

---------------------------------------------------------------------------
(* gst_libde265_dec_flush. *)

(* The engine holds a buffer for the picture of slot s. *)
SlotHeld(s) == slots[s].st # "free"

(* de265_reset: the engine gives up every picture it holds, calling        *)
(* release_buffer for each, and empties its output queue.                  *)
ResetSlots == [s \in Slots |-> [slots[s] EXCEPT !.st = "free", !.own = "none"]]

ResetRefs ==
    [r \in 1..Len(refs) |->
        IF \E s \in Slots : SlotHeld(s) /\ slots[s].ud = r
        THEN ReleasedRef(refs[r]) ELSE refs[r]]

ResetFrames ==
    [n \in 1..Len(frames) |->
        [frames[n] EXCEPT !.refs =
            @ - Cardinality({s \in Slots : /\ SlotHeld(s)
                                           /\ slots[s].ud # 0
                                           /\ refs[slots[s].ud].frame = n - 1})]]

(* FlushReplays whatever the mode. *)
FlushReplays_always == codec_data # NoCodecData

(* dec->codec_data != NULL && dec->mode == GST_TYPE_LIBDE265_DEC_RAW *)
FlushReplays == codec_data # NoCodecData /\ mode = GST_TYPE_LIBDE265_DEC_RAW

(* The call up to the pump: de265_reset, buffer_full = 0 and, when the     *)
(* retained configuration is replayed, de265_push_data of all of it (the   *)
(* engine answering err) and de265_push_end_of_NAL.                        *)
Flush(err) ==
    LET fail == FlushReplays /\ ~de265_isOK(err) IN
    /\ fl_pc \in {"idle", "done"}
    /\ sf_pc \in {"idle", "done"}
    /\ hf_pc \in {"idle", "done"}
    /\ slots' = ResetSlots
    /\ outq' = <<>>
    /\ refs' = ResetRefs
    /\ frames' = ResetFrames
    /\ rb' = IF \E s \in Slots : SlotHeld(s)
             THEN LET s == CHOOSE t \in Slots :
                               /\ SlotHeld(t)
                               /\ \A u \in Slots : SlotHeld(u) => u <= t
                  IN [called |-> TRUE, slot |-> s, ud |-> slots[s].ud,
                      default |-> slots[s].ud = 0,
                      touched |-> slots[s].ud # 0,
                      dropped |-> IF slots[s].ud # 0
                                     /\ refs[slots[s].ud].buffer
                                  THEN 1 ELSE 0]
             ELSE rb
    /\ buffer_full' = 0
    /\ eng' = <<EngSignal("reset")>>
              \o (IF FlushReplays
                  THEN <<EngCall("push_data", 0, Len(codec_data), codec_data,
                                 0, err)>>
                  ELSE <<>>)
              \o (IF FlushReplays /\ ~fail
                  THEN <<EngSignal("push_end_of_NAL")>>
                  ELSE <<>>)
    /\ host' = IF fail THEN <<"error: Failed to push codec data">> ELSE <<>>
    /\ fl_ret' = IF fail THEN "FALSE"
                 ELSE IF FlushReplays THEN "none" ELSE "TRUE"
    /\ fl_pc' = IF FlushReplays /\ ~fail THEN "pump" ELSE "done"
    /\ UNCHANGED <<frame_number, width, height, output_state, gb>>
    /\ UNCHANGED <<thVars, fmtVars, decVars, sfVars, hfVars, fpsVars, cpVars>>

(* One turn of do { err = de265_decode (dec->ctx, &more); ... } while      *)
(* (more) of the replay: the engine answers err and more.                  *)
FlushPump(err, more) ==
    LET fatal == PumpFatal(err)
        again == PumpAgain(err, more)
    IN
    /\ fl_pc = "pump"
    /\ eng' = LogDecode(eng, err)
    /\ host' = IF fatal THEN Append(host, "error: Failed to decode codec data")
               ELSE host
    /\ fl_ret' = IF fatal THEN "FALSE" ELSE IF again THEN "none" ELSE "TRUE"
    /\ fl_pc' = IF fatal \/ ~again THEN "done" ELSE "pump"
    /\ UNCHANGED <<thVars, fmtVars, decVars, outVars, sfVars, hfVars, picVars,
                   fpsVars, cpVars>>

(* The session specification: the three handlers that pump the engine,     *)
(* called in any order, the engine answering every status; the engine has  *)
(* no picture to give.                                                     *)
SessionRecords ==
    {<<0, 0, 1, 9>>, <<0, 0, 0, 1, 9>>, CfgRecord(<<1, 0, 0, 0>>, 3, <<0>>)}

SessionChunks == {<<>>, <<0, 0, 0, 1, 9>>}

SessionInit ==
    FmtIdle /\ DecInit /\ OutInit /\ EnvInit /\ SfIdle /\ HfIdle /\ PicInit
    /\ FpsInit /\ FlIdle /\ CpIdle /\ ThIdle

SessionNext ==
    \/ \E data \in SessionRecords, err \in PushResults :
          SetFormat(data, TRUE, err)
    \/ \E stream_format \in {"byte-stream", "hvc1"} :
          SetFormatNoCodecData(stream_format)
    \/ SetFormatArray
    \/ SetFormatEnd
    \/ \E err \in de265_error, more \in BOOLEAN : SetFormatPump(err, more)
    \/ \E data \in SessionChunks, err \in PushResults :
          HandleFrame(data, DemuxPts, TRUE, err)
    \/ \E err \in PushResults : HandleFrameNal(err)
    \/ \E err \in de265_error, more \in BOOLEAN : HandleFramePump(err, more)
    \/ \E w \in {DE265_OK, DE265_WARNING} : HandleFrameWarning(w)
    \/ HandleFramePicture(TRUE, TRUE, GST_FLOW_OK)
    \/ \E err \in PushResults : Flush(err)
    \/ \E err \in de265_error, more \in BOOLEAN : FlushPump(err, more)

SpecSession == SessionInit /\ [][SessionNext]_vars

---------------------------------------------------------------------------
(* The frame rate specification: the "framerate" property and the frame    *)
(* rate of the host's caps are drawn; pictures are made available through  *)
(* get_buffer and through the copy path, before or after set_format.       *)

(* The "framerate" property: unset (0/1), or 25/1. *)
FpsOverrides == {<<0, 1>>, <<25, 1>>}

(* The frame rate of the caps: 0/1 stands for caps without a frame rate. *)
HostFps == {<<n, d>> : n \in {0, 1, 30, 1000, 1001, 2001}, d \in {0, 1, 2}}

(* A picture that fits the host's buffer, and a cropped one that is left   *)
(* to the default allocator and copied.                                    *)
FpsCalls ==
    {[spec |-> BaseSpec, hb |-> BaseBuffer, alloc_ok |-> TRUE,
      map_ok |-> TRUE, def_ok |-> TRUE],
     [spec |-> [BaseSpec EXCEPT !.visible_height = 6], hb |-> BaseBuffer,
      alloc_ok |-> TRUE, map_ok |-> TRUE, def_ok |-> TRUE]}

FpsSpecInit ==
    /\ FmtIdle /\ BridgeSession /\ OutInit /\ EnvInit /\ SfIdle /\ HfIdle
    /\ PicInit /\ FlIdle /\ CpIdle /\ ThIdle
    /\ fps \in FpsOverrides
    /\ caps_fps \in HostFps
    /\ input_state = NoState
    /\ out_fps = NoState

FpsNext ==
    \/ SetFormatNoCodecData("byte-stream")
    \/ HandleFrame(<<1>>, DemuxPts, TRUE, DE265_OK)
    \/ HandleFramePump(DE265_OK, FALSE)
    \/ HandleFrameWarning(DE265_OK)
    \/ HandleFramePicture(TRUE, TRUE, GST_FLOW_OK)
    \/ \E c \in FpsCalls :
          GetBuffer(1, c.spec, c.hb, c.alloc_ok, c.map_ok, c.def_ok,
                    DemuxPts)
    \/ PictureDecoded(1)
    \/ ReleaseBuffer(1)

SpecFps == FpsSpecInit /\ [][FpsNext]_vars

---------------------------------------------------------------------------
(* The plane loop of the copy path of gst_libde265_dec_handle_frame.       *)
(*                                                                         *)
(* A picture here is [chroma, width, height, pad, bpp]: its three planes   *)
(* have the same size (4:4:4), plane p has depth bpp[p + 1], and every row *)
(* of a plane is followed by pad samples of padding.  The engine stores a  *)
(* sample of more than 8 bits in two bytes, low byte first.                *)

(* The bytes of one stored sample. *)
BytesPerSample(bpp) == (bpp + 7) \div 8

(* de265_get_image_width, de265_get_image_height, and the stride that      *)
(* de265_get_image_plane reports, in bytes.                                *)
PlaneWidth(img, plane) == img.width

PlaneHeight(img, plane) == img.height

PlaneStride(img, plane) ==
    (img.width + img.pad) * BytesPerSample(img.bpp[plane + 1])

(* The sample at column x of row y of a plane (padding included): the      *)
(* content of the picture, below 2^depth.                                  *)
SrcSample(img, plane, y, x) ==
    ((plane * 11 + y * 7 + x * 5 + 3) * 29) % (2 ^ img.bpp[plane + 1])

(* src[o] for the src of row y. *)
SrcByte(img, plane, y, o) ==
    LET bps == BytesPerSample(img.bpp[plane + 1])
        v == SrcSample(img, plane, y, o \div bps)
    IN IF bps = 1 THEN v
       ELSE IF o % 2 = 0 THEN v % 256 ELSE v \div 256

(* The k-th uint16_t of the src of row y. *)
Src16(img, plane, y, k) ==
    SrcByte(img, plane, y, 2 * k) + 256 * SrcByte(img, plane, y, 2 * k + 1)

(* The bytes of consecutive uint16_t stores of the values vals. *)
Stored16(vals) ==
    [i \in 1..(2 * Len(vals)) |->
        IF (i - 1) % 2 = 0 THEN vals[(i - 1) \div 2 + 1] % 256
        ELSE vals[(i - 1) \div 2 + 1] \div 256]

(* What *s >> shift yields when shift is negative: the behaviour is        *)
(* undefined.  A build that masks the count to five bits yields 0; a build *)
(* whose shift instruction takes a signed count shifts left.               *)
ShiftOutcomes == {"zero", "left"}

NegativeShift(v, shift, outcome) ==
    IF outcome = "zero" THEN 0 ELSE (v * (2 ^ (0 - shift))) % 65536

Min(a, b) == IF a < b THEN a ELSE b

(* bits_per_pixel, format and max_bits_per_pixel of the picture. *)
CopyMaxBits(img) ==
    FormatBits(gst_libde265_get_video_format(
                   img.chroma, Max(Max(img.bpp[1], img.bpp[2]), img.bpp[3])))

(* int dst_stride = width * ((max_bits_per_pixel + 7) / 8); *)
DstStride(img, plane) ==
    PlaneWidth(img, plane) * ((CopyMaxBits(img) + 7) \div 8)

(* The equal-depth branch copying every sample's bytes: width samples per  *)
(* The bytes one row of the equal-depth branch copies and advances dest    *)
(* by: memcpy (dest, src, width); dest += width; or, when stride == width, *)
(* its share of memcpy (dest, src, height * stride).                       *)
CopyRowBytes(img, plane) ==
    IF PlaneStride(img, plane) = PlaneWidth(img, plane)
    THEN PlaneStride(img, plane)
    ELSE PlaneWidth(img, plane)

(* The 8-bit widening branch bounding its loop by the destination row:     *)
(* The samples one row of the 8-bit widening branch converts:              *)
(* size = MIN (stride, dst_stride); for (pos = 0; pos < size; pos++).      *)
WidenCount(img, plane) ==
    Min(PlaneStride(img, plane), DstStride(img, plane))

(* The shift count of the branch for a plane of 9 or more bits below the   *)
(* int shift = (plane_bits_per_pixel - max_bits_per_pixel); of the branch  *)
(* for a plane of 9 or more bits below the format's depth.                 *)
ShiftCount(plane_bits_per_pixel, max_bits_per_pixel) ==
    plane_bits_per_pixel - max_bits_per_pixel

(* One pass of while (height--) for row y: the bytes read from src, the    *)
(* bytes stored from dest on, and what dest advances by.                   *)
CopyRow(img, plane, y, outcome) ==
    LET bpp == img.bpp[plane + 1]
        max == CopyMaxBits(img)
        stride == PlaneStride(img, plane)
        dst_stride == DstStride(img, plane)
        size == Min(stride, dst_stride)
        branch == PlaneBranch(bpp, max)
        shift16 == ShiftCount(bpp, max)
        Narrow(k) == Src16(img, plane, y, k) \div (2 ^ (bpp - max))
        Shifted(k) ==
            IF shift16 < 0
            THEN NegativeShift(Src16(img, plane, y, k), shift16, outcome)
            ELSE Src16(img, plane, y, k) \div (2 ^ shift16)
        Widened(k) == (SrcByte(img, plane, y, k) * (2 ^ (max - bpp))) % 65536
    IN
    CASE branch = "narrow16" ->
           [read |-> 2 * (size \div 2),
            bytes |-> Stored16([k \in 1..(size \div 2) |-> Narrow(k - 1)]),
            advance |-> dst_stride, negative |-> FALSE]
      [] branch = "narrow8" ->
           [read |-> 2 * size,
            bytes |-> [i \in 1..size |-> Narrow(i - 1) % 256],
            advance |-> dst_stride, negative |-> FALSE]
      [] branch = "shift16" ->
           [read |-> 2 * (size \div 2),
            bytes |-> Stored16([k \in 1..(size \div 2) |-> Shifted(k - 1)]),
            advance |-> dst_stride,
            negative |-> shift16 < 0 /\ size \div 2 > 0]
      [] branch = "widen8" ->
           [read |-> WidenCount(img, plane),
            bytes |-> Stored16([k \in 1..WidenCount(img, plane) |->
                                 Widened(k - 1)]),
            advance |-> dst_stride, negative |-> FALSE]
      [] OTHER ->
           [read |-> CopyRowBytes(img, plane),
            bytes |-> [i \in 1..CopyRowBytes(img, plane) |->
                          SrcByte(img, plane, y, i - 1)],
            advance |-> CopyRowBytes(img, plane), negative |-> FALSE]

(* The output buffer after bytes are stored from offset off on. *)
WriteAt(out, off, bytes) ==
    [i \in 1..Max(Len(out), off + Len(bytes)) |->
        IF i > off /\ i <= off + Len(bytes) THEN bytes[i - off]
        ELSE IF i <= Len(out) THEN out[i] ELSE 0]

(* The output buffer after the rows are stored, in order. *)
RECURSIVE WriteRows(_, _)
WriteRows(out, rows) ==
    IF rows = <<>> THEN out
    ELSE WriteRows(WriteAt(out, Head(rows).dst, Head(rows).bytes), Tail(rows))

(* dest = info.data; plane = 0 *)
CopyBegin ==
    /\ cp_pc = "idle"
    /\ cp_pc' = "plane"
    /\ cp_plane' = 0
    /\ cp_dest' = 0
    /\ cp_out' = <<>>
    /\ cp_rows' = <<>>
    /\ cp_ub' = FALSE
    /\ UNCHANGED cp_img
    /\ UNCHANGED <<thVars, fmtVars, decVars, outVars, envVars, sfVars, hfVars,
                   picVars, fpsVars, flVars>>

(* One pass of for (plane = 0; plane < 3; plane++): the plane's rows are   *)
(* copied or converted; outcome is what a shift by a negative count does   *)
(* in this build.                                                          *)
CopyPlane(outcome) ==
    LET rows == [y \in 1..PlaneHeight(cp_img, cp_plane) |->
                    LET r == CopyRow(cp_img, cp_plane, y - 1, outcome) IN
                    [plane |-> cp_plane, row |-> y - 1, read |-> r.read,
                     dst |-> cp_dest + (y - 1) * r.advance,
                     bytes |-> r.bytes, negative |-> r.negative]]
        advance == CopyRow(cp_img, cp_plane, 0, outcome).advance
    IN
    /\ cp_pc = "plane"
    /\ cp_plane < 3
    /\ cp_rows' = cp_rows \o rows
    /\ cp_out' = WriteRows(cp_out, rows)
    /\ cp_dest' = cp_dest + PlaneHeight(cp_img, cp_plane) * advance
    /\ cp_ub' = (cp_ub \/ \E y \in 1..Len(rows) : rows[y].negative)
    /\ cp_plane' = cp_plane + 1
    /\ UNCHANGED <<cp_pc, cp_img>>
    /\ UNCHANGED <<thVars, fmtVars, decVars, outVars, envVars, sfVars, hfVars,
                   picVars, fpsVars, flVars>>

(* The loop ends: gst_buffer_unmap (frame->output_buffer, &info). *)
CopyEnd ==
    /\ cp_pc = "plane"
    /\ cp_plane = 3
    /\ cp_pc' = "done"
    /\ UNCHANGED <<cp_img, cp_plane, cp_dest, cp_out, cp_rows, cp_ub>>
    /\ UNCHANGED <<thVars, fmtVars, decVars, outVars, envVars, sfVars, hfVars,
                   picVars, fpsVars, flVars>>

(* The copy specification: a picture is drawn, the loop runs over it. *)
CopyDepths ==
    {<<8, 8, 8>>, <<10, 10, 10>>, <<8, 10, 10>>, <<10, 8, 8>>, <<9, 10, 10>>,
     <<12, 12, 12>>, <<10, 12, 12>>, <<9, 9, 9>>}

CopyImages ==
    {[chroma |-> de265_chroma_444, width |-> w, height |-> h, pad |-> p,
      bpp |-> b] : w \in 1..MaxCopyWidth, h \in 1..MaxCopyHeight,
                   p \in 0..MaxCopyPad, b \in CopyDepths}

CopyInit ==
    /\ FmtIdle /\ BridgeSession /\ OutInit /\ EnvInit /\ SfIdle /\ HfIdle
    /\ PicInit /\ FpsInit /\ FlIdle /\ ThIdle
    /\ cp_pc = "idle"
    /\ cp_img \in CopyImages
    /\ cp_plane = 0
    /\ cp_dest = 0
    /\ cp_out = <<>>
    /\ cp_rows = <<>>
    /\ cp_ub = FALSE

CopyNext ==
    \/ CopyBegin
    \/ \E outcome \in ShiftOutcomes : CopyPlane(outcome)
    \/ CopyEnd

SpecCopy == CopyInit /\ [][CopyNext]_vars

---------------------------------------------------------------------------
(* The claims about the zero-copy bridge. *)

(* The engine still holds the picture that FrameRef r was made for. *)
RefBound(r) == \E s \in Slots : slots[s].st # "free" /\ slots[s].ud = r

(* C1: the engine releasing each picture it allocated once, every FrameRef *)
(* made by a successful zero-copy get_buffer is neither unmapped nor       *)
(* discarded while the engine holds its picture, and has been unmapped     *)
(* exactly once and discarded exactly once when the picture is released,   *)
(* delivered or not; release_buffer for a picture whose plane-0 user data  *)
(* is empty goes to the default release routine and touches no FrameRef.   *)
C1_FrameRefLifetime ==
    /\ \A r \in 1..Len(refs) :
          refs[r].zero_copy =>
              IF RefBound(r)
              THEN refs[r].unmapped = 0 /\ refs[r].freed = 0
              ELSE refs[r].unmapped = 1 /\ refs[r].freed = 1
    /\ rb.called => (rb.default <=> rb.ud = 0)
    /\ (rb.called /\ rb.ud = 0) => ~rb.touched

C1_Witness ==
    /\ rb.called /\ rb.default
    /\ \E r \in 1..Len(refs) :
          /\ refs[r].zero_copy
          /\ ~RefBound(r)
          /\ refs[r].unmapped = 1
          /\ refs[r].freed = 1
          /\ frames[refs[r].frame + 1].finished = 1

(* The smallest multiple of a that is not below x. *)
RoundedUp(x, a) ==
    CHOOSE m \in x..(x + a) : m % a = 0 /\ m - x < a

(* The conditions of C2 on the arguments and on the mapped buffer of the   *)
(* last get_buffer call.                                                   *)
ZeroCopyConditions ==
    LET spec == gb.spec
        hb == gb.hb
        w == RoundedUp(spec.width, spec.alignment)
        depth == spec.bpp[1]
    IN
    /\ w = spec.visible_width
    /\ spec.height = spec.visible_height
    /\ spec.chroma # "mono" =>
          (spec.bpp[2] = depth /\ spec.bpp[3] = depth)
    /\ IF spec.chroma = "mono" THEN depth = 8 ELSE depth \in {8, 10}
    /\ hb.stride[1] >= w * gb.pstride
    /\ hb.height0 >= spec.height
    /\ \A i \in 1..3 :
          /\ hb.stride[i] % spec.alignment = 0
          /\ hb.data[i] % spec.alignment = 0

(* C2: get_buffer hands the host's planes to the engine only if the        *)
(* rounded width and the height equal the visible ones, the planes of a    *)
(* colour picture share one bit depth, the resolved format exists and has  *)
(* that bit count, plane 0 of the mapped buffer is wide and high enough,   *)
(* and every plane's stride and address is aligned; whenever it does not   *)
(* hand them over, the default allocator is invoked instead.               *)
C2_ZeroCopyOnlyIf ==
    gb.called =>
        /\ gb.zero_copy => (ZeroCopyConditions /\ gb.planes_set = 3)
        /\ ~ZeroCopyConditions => gb.default
        /\ gb.default <=> ~gb.zero_copy

C2_Witness ==
    /\ gb.called
    /\ gb.zero_copy
    /\ gb.spec.bpp = <<10, 10, 10>>
    /\ gb.pstride = 2
    /\ gb.hb.stride = <<32, 16, 16>>
    /\ slots[gb.slot].own = "host"

---------------------------------------------------------------------------
(* The claims about the demuxer. *)

(* The n bytes at index pos (counted from 0) as an unsigned big-endian     *)
(* number, or Len(d) + 1 when the number is larger than that.              *)
RECURSIVE Unsigned(_, _, _)
Unsigned(d, pos, n) ==
    IF n = 0 THEN 0
    ELSE LET high == Unsigned(d, pos, n - 1) IN
         IF high * 256 + d[pos + n] > Len(d) THEN Len(d) + 1
         ELSE high * 256 + d[pos + n]

(* The chunk as a concatenation of [n-byte length][payload] records from   *)
(* index pos on: recs lists the records that are whole, in order; exact    *)
(* says that they end where the chunk ends; over says that the prefix      *)
(* after them claims more bytes than remain.                               *)
RECURSIVE ChunkRecords(_, _, _)
ChunkRecords(d, pos, n) ==
    IF pos = Len(d) THEN [exact |-> TRUE, over |-> FALSE, recs |-> <<>>]
    ELSE IF pos + n > Len(d)
    THEN [exact |-> FALSE, over |-> FALSE, recs |-> <<>>]
    ELSE LET len == Unsigned(d, pos, n) IN
         IF len > Len(d) - (pos + n)
         THEN [exact |-> FALSE, over |-> TRUE, recs |-> <<>>]
         ELSE LET rest == ChunkRecords(d, pos + n + len, n) IN
              [exact |-> rest.exact, over |-> rest.over,
               recs |-> <<[off |-> pos + n, len |-> len]>> \o rest.recs]

(* A handle_frame call is running, or has returned, on the mapped chunk,   *)
(* in the Packetized mode.                                                 *)
DemuxCalled ==
    /\ hf_pc # "idle"
    /\ hf_data # <<>>
    /\ mode = GST_TYPE_LIBDE265_DEC_PACKETIZED

(* C7: in the Packetized mode, for every length size and every chunk that  *)
(* is an exact concatenation of length-prefixed records, handle_frame      *)
(* pushes the payloads and nothing else: at each moment the pushes are the *)
(* first payloads in their order, one NAL push per record with the         *)
(* record's length and bytes; once the loop is through every payload has   *)
(* been pushed; the loop stops early only when the engine rejects a push.  *)
C7_ExactChunkPushes ==
    (DemuxCalled /\ ChunkRecords(hf_data, 0, length_size).exact) =>
        LET recs == ChunkRecords(hf_data, 0, length_size).recs IN
        /\ ~hf_ub
        /\ DataPushes = <<>>
        /\ PushesAreFirstOf(recs, hf_data)
        /\ hf_pc \in {"pump", "warn", "picture"}
              => Len(NalPushes) = Len(recs)
        /\ (hf_pc = "done" /\ Len(NalPushes) < Len(recs))
              => /\ NalPushes # <<>>
                 /\ NalPushes[Len(NalPushes)].res # DE265_OK
                 /\ host = <<"error: Error while pushing data">>
        /\ \A k \in 1..(Len(NalPushes) - 1) : NalPushes[k].res = DE265_OK

C7_Witness ==
    /\ DemuxCalled
    /\ length_size = 2
    /\ hf_data = <<0, 1, 255, 0, 0>>
    /\ hf_pc = "done"
    /\ hf_ret = GST_FLOW_OK
    /\ Len(NalPushes) = 2
    /\ NalPushes[1].bytes = <<255>>
    /\ NalPushes[2].bytes = <<>>

(* C8 as stated: in the Packetized mode, when a length prefix claims more  *)
(* payload bytes than remain in the chunk, handle_frame returns a fatal    *)
(* error; only the records before that prefix are pushed; every NAL pushed *)
(* is a byte range inside the chunk.                                       *)
C8_OverflowIsFatal ==
    (DemuxCalled /\ ChunkRecords(hf_data, 0, length_size).over) =>
        /\ PushesAreFirstOf(ChunkRecords(hf_data, 0, length_size).recs,
                            hf_data)
        /\ \A k \in 1..Len(NalPushes) :
              /\ NalPushes[k].off >= 0
              /\ NalPushes[k].len >= 0
              /\ NalPushes[k].off + NalPushes[k].len <= Len(hf_data)
        /\ hf_pc \in {"nal", "done"}
        /\ hf_pc = "done" => (~hf_ub /\ hf_ret = GST_FLOW_ERROR)

(* The prefix FF FF FF FF of a 4-byte length size is pushed as a NAL of    *)
(* length -1, and the call goes on to the pump.                            *)
C8_NegativeLengthPushed ==
    /\ DemuxCalled
    /\ length_size = 4
    /\ hf_data = <<255, 255, 255, 255>>
    /\ Len(NalPushes) = 1
    /\ NalPushes[1].len = -1
    /\ hf_pc = "pump"

---------------------------------------------------------------------------
(* The claims about the format resolver. *)

(* The table the specification gives for the colour layouts. *)
ColourLayouts == {de265_chroma_420, de265_chroma_422, de265_chroma_444}

Table8(chroma) ==
    CASE chroma = de265_chroma_420 -> "I420"
      [] chroma = de265_chroma_422 -> "Y42B"
      [] chroma = de265_chroma_444 -> "Y444"

Table10(chroma) ==
    CASE chroma = de265_chroma_420 -> "I420_10LE"
      [] chroma = de265_chroma_422 -> "I422_10LE"
      [] chroma = de265_chroma_444 -> "Y444_10LE"

(* C9: for 4:2:0, 4:2:2 and 4:4:4 the resolver returns the layout's 8-bit  *)
(* format at depth 8 and the layout's one 10-bit-storage format at every   *)
(* depth 9..16 (so 9 and 10 agree); for monochrome it returns 8-bit gray.  *)
C9_ResolverTable ==
    fmt_result # "none" =>
        /\ (fmt_chroma \in ColourLayouts /\ fmt_bits = 8)
              => fmt_result = Table8(fmt_chroma)
        /\ (fmt_chroma \in ColourLayouts /\ fmt_bits \in 9..16)
              => fmt_result = Table10(fmt_chroma)
        /\ fmt_chroma = de265_chroma_mono => fmt_result = "GRAY8"

C9_Witness ==
    /\ fmt_chroma = de265_chroma_422
    /\ fmt_bits = 16
    /\ fmt_result = "I422_10LE"

(* C10 as stated: "unsupported" for a colour layout below 8 or above 16    *)
(* bits, for monochrome at any depth other than 8, and for a chroma value  *)
(* outside the four layouts.                                               *)
C10_Original ==
    fmt_result # "none" =>
        /\ (fmt_chroma \in ColourLayouts /\ (fmt_bits < 8 \/ fmt_bits > 16))
              => fmt_result = "UNKNOWN"
        /\ (fmt_chroma = de265_chroma_mono /\ fmt_bits # 8)
              => fmt_result = "UNKNOWN"
        /\ fmt_chroma \notin (ColourLayouts \cup {de265_chroma_mono})
              => fmt_result = "UNKNOWN"

(* C10 amended: "unsupported" for a colour layout below 8 or above 16 bits *)
(* and for a chroma value outside the four layouts; monochrome is never    *)
(* "unsupported": it resolves to 8-bit gray at every depth.                *)
C10_UnsupportedBands ==
    fmt_result # "none" =>
        /\ (fmt_chroma \in ColourLayouts /\ (fmt_bits < 8 \/ fmt_bits > 16))
              => fmt_result = "UNKNOWN"
        /\ fmt_chroma \notin (ColourLayouts \cup {de265_chroma_mono})
              => fmt_result = "UNKNOWN"
        /\ fmt_chroma = de265_chroma_mono => fmt_result = "GRAY8"

C10_Witness ==
    /\ fmt_chroma = de265_chroma_420
    /\ fmt_bits = 17
    /\ fmt_result = "UNKNOWN"

---------------------------------------------------------------------------
(* The claims about the plane copy loop. *)

(* The plane of a copied row has the depth of the output format. *)
EqualDepth(r) == cp_img.bpp[r.plane + 1] = CopyMaxBits(cp_img)

(* The bytes of the visible samples of the source row of a copied row. *)
VisibleRow(r) ==
    [o \in 1..(cp_img.width * BytesPerSample(cp_img.bpp[r.plane + 1])) |->
        SrcByte(cp_img, r.plane, r.row, o - 1)]

(* C11 as stated: in the copy path, for every plane whose depth equals the *)
(* output format's maximum depth (8-bit samples in an 8-bit format as well *)
(* as 16-bit-stored samples in a 10-bit format), the destination receives  *)
(* every visible row in full, byte for byte the source row, for every      *)
(* source stride that is at least the row's byte width.                    *)
C11_EqualDepthRowsInFull ==
    \A i \in 1..Len(cp_rows) :
        EqualDepth(cp_rows[i]) =>
            /\ Len(cp_rows[i].bytes) >= Len(VisibleRow(cp_rows[i]))
            /\ \A o \in 1..Len(VisibleRow(cp_rows[i])) :
                  cp_rows[i].bytes[o] = VisibleRow(cp_rows[i])[o]

(* A row of two 10-bit samples of a 10-bit picture: four bytes in the      *)
(* source, two bytes copied.                                               *)
C11_HalfRowCopied ==
    /\ cp_pc = "done"
    /\ cp_img.bpp = <<10, 10, 10>>
    /\ cp_img.width = 2
    /\ Len(VisibleRow(cp_rows[1])) = 4
    /\ Len(cp_rows[1].bytes) = 2

(* The equal-depth branch on 8-bit samples copies every visible row in     *)
(* full.                                                                   *)
C11_EightBitRowsInFull ==
    \A i \in 1..Len(cp_rows) :
        (EqualDepth(cp_rows[i]) /\ cp_img.bpp[cp_rows[i].plane + 1] = 8) =>
            /\ Len(cp_rows[i].bytes) >= Len(VisibleRow(cp_rows[i]))
            /\ \A o \in 1..Len(VisibleRow(cp_rows[i])) :
                  cp_rows[i].bytes[o] = VisibleRow(cp_rows[i])[o]

---------------------------------------------------------------------------
(* The claims about the pump and what follows it. *)

(* The engine call op was made by the handler that runs or ran last. *)
EngCalled(op) == \E k \in 1..Len(eng) : eng[k].op = op

(* A handle_frame call has fed the engine, pumped it without a fatal       *)
(* status, found no picture in the engine's output queue, and returned.    *)
NoPictureFound ==
    /\ hf_pc = "done"
    /\ EngCalled("decode")
    /\ (host = <<>> \/ host[Len(host)] # "error: Error while decoding")
    /\ outq = <<>>

(* C12 as stated: whenever a handle_frame call finds no decoded picture    *)
(* after feeding and pumping, the pump having stopped on waiting-for-input *)
(* or on buffer-full included, the current host frame is released exactly  *)
(* once, no output is produced, and the call returns success.              *)
C12_NoPictureReleasesOnce ==
    NoPictureFound =>
        /\ frames[hf_frame + 1].refs = NewFrame(hf_pts).refs - 1
        /\ frames[hf_frame + 1].finished = 0
        /\ ~frames[hf_frame + 1].outbuf
        /\ hf_ret = GST_FLOW_OK

(* The pump stopped on buffer-full with no picture to take: the call has   *)
(* returned success and still holds its reference to the frame.            *)
C12_FrameKept ==
    /\ NoPictureFound
    /\ buffer_full = 1
    /\ ~EngCalled("get_next_picture")
    /\ hf_ret = GST_FLOW_OK
    /\ frames[hf_frame + 1].refs = NewFrame(hf_pts).refs

(* When the call gets as far as de265_get_next_picture and is given no     *)
(* picture, the frame is released once and the call returns success.       *)
C12_ReleasedAfterGetNextPicture ==
    (NoPictureFound /\ EngCalled("get_next_picture")) =>
        /\ frames[hf_frame + 1].refs = NewFrame(hf_pts).refs - 1
        /\ frames[hf_frame + 1].finished = 0
        /\ ~frames[hf_frame + 1].outbuf
        /\ hf_ret = GST_FLOW_OK

(* The status of the decode step the pump of the running or last handler   *)
(* made last; "none" before its first step.                                *)
DecodeStatus ==
    IF EngCalled("decode")
    THEN eng[CHOOSE k \in 1..Len(eng) : eng[k].op = "decode"].res
    ELSE "none"

(* Which handler's pump made that step: flush resets the engine first,     *)
(* set_format ends an access unit before it pumps, handle_frame does       *)
(* neither.                                                                *)
FlushPumped == EngCalled("decode") /\ EngCalled("reset")

SetFormatPumped ==
    EngCalled("decode") /\ EngCalled("push_end_of_NAL") /\ ~EngCalled("reset")

HandleFramePumped ==
    EngCalled("decode") /\ ~EngCalled("push_end_of_NAL")
    /\ ~EngCalled("reset")

(* Nothing but warnings has been posted to the host. *)
NoErrorPosted ==
    \A k \in 1..Len(host) :
        host[k] \in {"warning: engine warning",
                     "warning: Unsupported extra data version"}

(* The handler whose pump made the step has failed with a stream-decode    *)
(* error.                                                                  *)
PumpFailed ==
    /\ host # <<>>
    /\ FlushPumped =>
          /\ fl_pc = "done" /\ fl_ret = "FALSE"
          /\ host[Len(host)] = "error: Failed to decode codec data"
    /\ SetFormatPumped =>
          /\ sf_pc = "done" /\ sf_ret = "FALSE"
          /\ host[Len(host)] = "error: Failed to decode codec data"
    /\ HandleFramePumped =>
          /\ hf_pc = "done" /\ hf_ret = GST_FLOW_ERROR
          /\ host[Len(host)] = "error: Error while decoding"

(* The handler whose pump made the step has not failed and has posted no   *)
(* error.                                                                  *)
PumpNotFailed ==
    /\ NoErrorPosted
    /\ FlushPumped => fl_ret # "FALSE"
    /\ SetFormatPumped => sf_ret # "FALSE"
    /\ HandleFramePumped => hf_ret # GST_FLOW_ERROR

(* The pump loop of the handler has ended. *)
PumpEnded ==
    /\ FlushPumped => fl_pc = "done"
    /\ SetFormatPumped => sf_pc = "done"
    /\ HandleFramePumped => hf_pc # "pump"

(* C13 as stated: waiting-for-input and buffer-full never make             *)
(* handle_frame, set_format or flush fail or post an error, they only end  *)
(* the pump loop; every other status but DE265_OK from a decode step is a  *)
(* fatal stream-decode error.                                              *)
C13_Original ==
    /\ DecodeStatus \in {DE265_ERROR_WAITING_FOR_INPUT_DATA,
                         DE265_ERROR_IMAGE_BUFFER_FULL} =>
          (PumpNotFailed /\ PumpEnded)
    /\ DecodeStatus \in {DE265_ERROR_OTHER, DE265_WARNING} => PumpFailed

(* C13, amended: waiting-for-input and buffer-full never make              *)
(* handle_frame, set_format or flush fail or post an error, they only end  *)
(* the pump loop; an error status from a decode step is a fatal            *)
(* stream-decode error in all three; a warning status from a decode step   *)
(* is fatal in handle_frame only: set_format and flush take it as success  *)
(* and neither fail nor post an error.                                     *)
C13_FlowControlAndFatal ==
    /\ DecodeStatus \in {DE265_ERROR_WAITING_FOR_INPUT_DATA,
                         DE265_ERROR_IMAGE_BUFFER_FULL} =>
          (PumpNotFailed /\ PumpEnded)
    /\ DecodeStatus = DE265_ERROR_OTHER => PumpFailed
    /\ DecodeStatus = DE265_WARNING =>
          IF HandleFramePumped THEN PumpFailed ELSE PumpNotFailed

(* The pump of flush has stopped on waiting-for-input: flush has returned  *)
(* TRUE and has posted nothing.                                            *)
C13_Witness ==
    /\ FlushPumped
    /\ DecodeStatus = DE265_ERROR_WAITING_FOR_INPUT_DATA
    /\ fl_pc = "done"
    /\ fl_ret = "TRUE"
    /\ host = <<>>

(* A decode step of set_format's pump has answered a warning status and    *)
(* set_format has returned TRUE.                                           *)
C13_WarningTolerated ==
    /\ SetFormatPumped
    /\ DecodeStatus = DE265_WARNING
    /\ sf_pc = "done"
    /\ sf_ret = "TRUE"
    /\ host = <<>>

---------------------------------------------------------------------------
(* The claims about the negotiation of the output state. *)

(* The picture the last get_buffer call made available differs from what   *)
(* was negotiated last: in its format, its width or its height.            *)
GbChanged ==
    \/ gb.format # gb.prior.state
    \/ AlignedWidth(gb.spec) # gb.prior.width
    \/ gb.spec.height # gb.prior.height

(* C14 as stated: whenever the resolved format, the width or the height of *)
(* a picture being made available differs from the session's last          *)
(* negotiated values, the session renegotiates with the host before an     *)
(* output buffer for that picture is allocated, also when only the format  *)
(* changes and width and height stay the same.                             *)
C14_RenegotiatesOnAnyChange ==
    (gb.called /\ gb.eligible /\ GbChanged) =>
        /\ gb.negotiated
        /\ output_state = gb.format
        /\ \E i, j \in 1..Len(gb.trace) :
              /\ i < j
              /\ gb.trace[i] = "negotiate"
              /\ gb.trace[j] = "alloc_output_frame"

(* An 8-bit 16x8 picture was negotiated as I420; a 10-bit picture of the   *)
(* same size is given an output buffer while the output state is still     *)
(* I420.                                                                   *)
C14_FormatChangeMissed ==
    /\ gb.called
    /\ gb.eligible
    /\ gb.spec = DeepSpec
    /\ gb.format = GST_VIDEO_FORMAT_I420_10LE
    /\ gb.prior.state = GST_VIDEO_FORMAT_I420
    /\ ~gb.negotiated
    /\ output_state = GST_VIDEO_FORMAT_I420
    /\ gb.created

(* A change of width or height is renegotiated before the output buffer is *)
(* allocated.                                                              *)
C14_RenegotiatesOnSizeChange ==
    (/\ gb.called
     /\ gb.eligible
     /\ \/ AlignedWidth(gb.spec) # gb.prior.width
        \/ gb.spec.height # gb.prior.height) =>
        /\ gb.negotiated
        /\ output_state = gb.format
        /\ \E i, j \in 1..Len(gb.trace) :
              /\ i < j
              /\ gb.trace[i] = "negotiate"
              /\ gb.trace[j] = "alloc_output_frame"

---------------------------------------------------------------------------
(* The claims about the timestamps of the pushed NAL units. *)

(* C15 as stated: in the Packetized mode, when a chunk holds several NAL   *)
(* units, the chunk's timestamp is attached to the first NAL pushed from   *)
(* the chunk only; the following ones are pushed without it.               *)
C15_Original ==
    DemuxCalled =>
        \A k \in 1..Len(NalPushes) :
            IF k = 1 THEN NalPushes[k].pts = hf_pts
            ELSE NalPushes[k].pts # hf_pts

(* C15, amended: in the Packetized mode every NAL unit pushed from a chunk *)
(* is pushed with the chunk's timestamp, the first one and the following   *)
(* ones alike.                                                             *)
C15_EveryNalCarriesPts ==
    DemuxCalled =>
        \A k \in 1..Len(NalPushes) : NalPushes[k].pts = hf_pts

(* A chunk of two NAL units: both have been pushed with the chunk's        *)
(* timestamp.                                                              *)
C15_Witness ==
    /\ DemuxCalled
    /\ length_size = 1
    /\ hf_data = <<1, 255, 1, 2>>
    /\ hf_pc = "done"
    /\ Len(NalPushes) = 2
    /\ NalPushes[1].pts = DemuxPts
    /\ NalPushes[2].pts = DemuxPts

---------------------------------------------------------------------------
(* The claims about flush. *)

(* The engine calls logged are those of a flush call. *)
FlushCalled == eng # <<>> /\ eng[1].op = "reset"

(* C16: a flush resets the engine and then replays the retained            *)
(* configuration bytes into it if and only if configuration bytes are      *)
(* retained and the mode is the raw one: the replay is one push of all the *)
(* retained bytes, made right after the reset; a flush of a Packetized     *)
(* session resets the engine and pushes nothing.                           *)
C16_FlushReplay ==
    FlushCalled =>
        /\ buffer_full = 0
        /\ NalPushes = <<>>
        /\ Len(DataPushes) =
              IF codec_data # NoCodecData
                 /\ mode = GST_TYPE_LIBDE265_DEC_RAW
              THEN 1 ELSE 0
        /\ Len(DataPushes) = 1 =>
              /\ eng[2] = DataPushes[1]
              /\ DataPushes[1].off = 0
              /\ DataPushes[1].len = Len(codec_data)
              /\ DataPushes[1].bytes = codec_data
        /\ mode = GST_TYPE_LIBDE265_DEC_PACKETIZED =>
              /\ eng = <<EngSignal("reset")>>
              /\ fl_pc = "done"
              /\ fl_ret = "TRUE"

(* A raw session that retains a record: the flush has reset the engine,    *)
(* pushed the record again and pumped the engine.                          *)
C16_Witness ==
    /\ FlushCalled
    /\ mode = GST_TYPE_LIBDE265_DEC_RAW
    /\ codec_data = <<0, 0, 1, 9>>
    /\ Len(DataPushes) = 1
    /\ DataPushes[1].bytes = <<0, 0, 1, 9>>
    /\ EngCalled("decode")
    /\ fl_pc = "done"
    /\ fl_ret = "TRUE"

(* A Packetized session that retains its configuration record: the flush   *)
(* has reset the engine and pushed nothing.                                *)
C16_PacketizedNoReplay ==
    /\ FlushCalled
    /\ mode = GST_TYPE_LIBDE265_DEC_PACKETIZED
    /\ codec_data = CfgRecord(<<1, 0, 0, 0>>, 3, <<0>>)
    /\ eng = <<EngSignal("reset")>>
    /\ fl_pc = "done"

---------------------------------------------------------------------------
(* More claims about the plane copy loop. *)

(* The rows copied so far of plane p. *)
RowsOf(p) == {i \in 1..Len(cp_rows) : cp_rows[i].plane = p}

(* C17 as stated: in every branch of the plane loop and for every source   *)
(* stride that is at least the row's byte width, each row reads at most    *)
(* source-stride bytes of the source row and writes at most                *)
(* destination-stride bytes (width times the bytes of an output sample) to *)
(* the destination row, and as many rows are written as the plane is high. *)
C17_RowsWithinStrides ==
    cp_pc # "idle" =>
        /\ \A i \in 1..Len(cp_rows) :
              /\ cp_rows[i].read <= PlaneStride(cp_img, cp_rows[i].plane)
              /\ Len(cp_rows[i].bytes) <= DstStride(cp_img, cp_rows[i].plane)
        /\ \A p \in 0..2 :
              p < cp_plane =>
                  Cardinality(RowsOf(p)) = PlaneHeight(cp_img, p)

(* An 8-bit plane of a 10-bit picture, one sample wide with one sample of  *)
(* padding: the destination row is two bytes, four bytes are written.      *)
C17_RowOverrun ==
    /\ cp_pc = "done"
    /\ cp_img.bpp = <<10, 8, 8>>
    /\ cp_img.width = 1
    /\ cp_img.pad = 1
    /\ \E i \in RowsOf(1) :
          /\ DstStride(cp_img, 1) = 2
          /\ Len(cp_rows[i].bytes) = 4

(* Every branch but the one that widens an 8-bit plane keeps each row      *)
(* within the source stride and the destination stride, and every branch   *)
(* writes as many rows as the plane is high.                               *)
C17_OtherBranchesWithinStrides ==
    cp_pc # "idle" =>
        /\ \A i \in 1..Len(cp_rows) :
              PlaneBranch(cp_img.bpp[cp_rows[i].plane + 1],
                          CopyMaxBits(cp_img)) # "widen8" =>
                  /\ cp_rows[i].read <= PlaneStride(cp_img, cp_rows[i].plane)
                  /\ Len(cp_rows[i].bytes)
                        <= DstStride(cp_img, cp_rows[i].plane)
        /\ \A p \in 0..2 :
              p < cp_plane =>
                  Cardinality(RowsOf(p)) = PlaneHeight(cp_img, p)

(* The plane of a copied row is less deep than the output format, which    *)
(* holds more than 8 bits.                                                 *)
LowerDepth(r) ==
    /\ cp_img.bpp[r.plane + 1] < CopyMaxBits(cp_img)
    /\ CopyMaxBits(cp_img) > 8

(* The visible samples of a copied row are stored as 16-bit values, each   *)
(* the source sample shifted left by the difference of the depths.         *)
WidenedRow(r) ==
    /\ Len(r.bytes) >= 2 * cp_img.width
    /\ \A x \in 0..(cp_img.width - 1) :
          r.bytes[2 * x + 1] + 256 * r.bytes[2 * x + 2] =
              SrcSample(cp_img, r.plane, r.row, x)
                  * (2 ^ (CopyMaxBits(cp_img) - cp_img.bpp[r.plane + 1]))

(* C18 as stated: in the copy path, for every plane less deep than the     *)
(* output format (of more than 8 bits), an 8-bit plane as well as one of   *)
(* 9 bits or more, each output sample is the 16-bit value of the source    *)
(* sample shifted left by the difference of the depths, and no shift by a  *)
(* negative count is ever made.                                            *)
C18_LowerDepthWidened ==
    cp_pc # "idle" =>
        /\ ~cp_ub
        /\ \A i \in 1..Len(cp_rows) :
              LowerDepth(cp_rows[i]) => WidenedRow(cp_rows[i])

(* A 9-bit plane beside 10-bit planes: its rows were shifted right by -1   *)
(* and, in the build that masks the count, every output sample is 0.       *)
C18_NegativeShift ==
    /\ cp_pc = "done"
    /\ cp_img.bpp = <<9, 10, 10>>
    /\ cp_ub
    /\ cp_rows[1].plane = 0
    /\ cp_rows[1].negative
    /\ \A o \in 1..Len(cp_rows[1].bytes) : cp_rows[1].bytes[o] = 0
    /\ SrcSample(cp_img, 0, 0, 0) # 0

(* An 8-bit plane of a deeper picture is widened by a left shift of the    *)
(* difference of the depths: plane 0 of depths 8/10/10 by 2.               *)
C18_EightBitWidened ==
    cp_pc # "idle" =>
        \A i \in 1..Len(cp_rows) :
            (LowerDepth(cp_rows[i]) /\ cp_img.bpp[cp_rows[i].plane + 1] = 8)
                => /\ WidenedRow(cp_rows[i])
                   /\ ~cp_rows[i].negative

---------------------------------------------------------------------------
(* The claims about the frame rate of the output state. *)

(* A step negotiates the output state: _gst_libde265_image_available sets  *)
(* dec->width and dec->height there and nowhere else.                      *)
Negotiates == width' # width \/ height' # height

(* C19 as stated: when the output state is negotiated and no frame rate    *)
(* override is configured, its frame rate is 24/1 whenever the frame rate  *)
(* the host gave is absent, is zero (numerator 0), has denominator 0 or is *)
(* above 1000; otherwise it is the frame rate the host gave.               *)
C19_DefaultRateSubstituted ==
    [][(Negotiates /\ fps[1] <= 0) =>
          out_fps' = IF \/ input_state = NoState
                        \/ input_state[1] = 0
                        \/ input_state[2] = 0
                        \/ input_state[1] > 1000 * input_state[2]
                     THEN <<24, 1>>
                     ELSE input_state]_vars

(* The host's caps carry no frame rate (0/1), no override is set: the      *)
(* output state was negotiated with 0/1.                                   *)
C19_ZeroRateKept ==
    /\ fps = <<0, 1>>
    /\ input_state = <<0, 1>>
    /\ caps_fps = <<0, 1>>
    /\ gb.called
    /\ gb.negotiated
    /\ out_fps = <<0, 1>>

(* With no override, a host frame rate with denominator 0 or above 1000 is *)
(* replaced by 24/1, and a host frame rate with a numerator above 0 and at *)
(* most 1000 is kept.                                                      *)
C19_InvalidRateReplaced ==
    [][(Negotiates /\ fps[1] <= 0 /\ input_state # NoState) =>
          /\ (\/ input_state[2] = 0
              \/ input_state[1] > 1000 * input_state[2]) =>
                 out_fps' = <<24, 1>>
          /\ (/\ input_state[2] # 0
              /\ input_state[1] > 0
              /\ input_state[1] <= 1000 * input_state[2]) =>
                 out_fps' = input_state]_vars

---------------------------------------------------------------------------
(* The claims about the fallback of get_buffer. *)

(* The last get_buffer call made a FrameRef and then fell back. *)
FellBackWithRef == gb.called /\ gb.created /\ gb.default

(* C20: whenever get_buffer falls back after it has made a FrameRef (the   *)
(* mapping failed, the stride is too small, the lines are too few, a       *)
(* stride or a base address is misaligned), that FrameRef is torn down     *)
(* exactly once: it is unmapped if and only if it was mapped, its buffer   *)
(* is dropped, its reference to the host frame is dropped; this is done    *)
(* before the engine's default allocator is called, and the call returns   *)
(* what the default allocator returns.                                     *)
C20_FallbackTearsDownOnce ==
    FellBackWithRef =>
        /\ refs[gb.ref].freed = 1
        /\ refs[gb.ref].mapped = gb.mapped
        /\ refs[gb.ref].unmapped = (IF gb.mapped THEN 1 ELSE 0)
        /\ ~refs[gb.ref].buffer
        /\ gb.frame_refs[2] = gb.frame_refs[1]
        /\ Len(SelectSeq(gb.trace, LAMBDA e : e = "release_frame_ref")) = 1
        /\ Len(SelectSeq(gb.trace, LAMBDA e : e = "default_get_buffer")) = 1
        /\ gb.trace[Len(gb.trace) - 1] = "release_frame_ref"
        /\ gb.trace[Len(gb.trace)] = "default_get_buffer"
        /\ gb.result = (IF gb.def_ok THEN 1 ELSE 0)

(* The host's buffer was mapped and its second plane is misaligned: the    *)
(* FrameRef has been unmapped and freed once, and the call has returned    *)
(* the default allocator's failure.                                        *)
C20_Witness ==
    /\ FellBackWithRef
    /\ gb.hb = MisalignedBuffer
    /\ gb.mapped
    /\ gb.planes_set = 1
    /\ refs[gb.ref].freed = 1
    /\ refs[gb.ref].unmapped = 1
    /\ ~gb.def_ok
    /\ gb.result = 0

(* The mapping failed: the FrameRef has been freed once and was never      *)
(* unmapped.                                                               *)
C20_MapFailure ==
    /\ FellBackWithRef
    /\ ~gb.mapped
    /\ refs[gb.ref].freed = 1
    /\ refs[gb.ref].unmapped = 0
    /\ gb.result = 1

---------------------------------------------------------------------------
(* The threads.  The engine calls get_buffer and release_buffer on its     *)
(* worker threads, one callback per picture slot at a time; the thread     *)
(* that drives the pump retrieves a picture and delivers it.  A callback   *)
(* takes two steps here, so that a state shows it running; the delivery    *)
(* takes one step per statement.  The engine keeps the picture it has      *)
(* handed out by de265_get_next_picture until de265_release_next_picture   *)
(* and calls no callback for its slot in between.                          *)

(* A write to a field of FrameRef ref: by is the thread, during the        *)
(* callback running for the FrameRef's slot at that moment, pinned whether *)
(* the picture was handed out and not yet released.                        *)
FieldWrite(ref, field, by, s) ==
    [ref |-> ref, field |-> field, by |-> by, slot |-> s,
     during |-> th_cb[s].op, pinned |-> slots[s].st = "pinned"]

(* The statements of the delivery of handle_frame in program order with    *)
(* de265_release_next_picture first.                                       *)
DeliverySteps_releasefirst == <<"release", "take", "drop", "finish">>

(* The statements of the delivery of handle_frame, in program order: the   *)
(* output buffer is taken from the FrameRef, the FrameRef's reference is   *)
(* dropped, FINISH_FRAME, RELEASE_PICTURE.                                 *)
DeliverySteps == <<"take", "drop", "finish", "release">>

(* The slots the engine may call a callback for. *)
CallbackAllowed(s, states) ==
    /\ th_cb[s] = NoCallback
    /\ slots[s].st \in states

(* handle_frame up to the pump: the host's frame, dec->frame_number. *)
ThHandleFrame(pts) ==
    /\ th_pc = 0
    /\ Len(frames) < MaxFrames
    /\ frames' = Append(frames, NewFrame(pts))
    /\ frame_number' = Len(frames)
    /\ UNCHANGED <<buffer_full, width, height, output_state>>
    /\ UNCHANGED <<slots, outq, refs, gb, rb, thVars>>
    /\ UNCHANGED <<fmtVars, decVars, envVars, sfVars, hfVars, fpsVars,
                   flVars, cpVars>>

(* get_buffer up to gst_buffer_replace (&frame->output_buffer, NULL): the  *)
(* FrameRef is allocated and takes the output buffer.  Without a pending   *)
(* frame, or when ALLOC_OUTPUT_FRAME fails, the default allocator serves   *)
(* the picture and no FrameRef is made.                                    *)
ThGetBufferBegin(s, alloc_ok, pts) ==
    LET found == FramePending(frames, frame_number)
        id == Len(refs) + 1
        ref == [frame |-> frame_number, buffer |-> TRUE, mapped |-> FALSE,
                unmapped |-> 0, freed |-> 0, zero_copy |-> FALSE]
    IN
    /\ CallbackAllowed(s, {"free"})
    /\ gb.calls < MaxCalls
    /\ gb' = [gb EXCEPT !.calls = @ + 1]
    /\ IF found /\ alloc_ok
       THEN /\ refs' = Append(refs, ref)
            /\ frames' = FrameRef(frames, frame_number)
            /\ th_cb' = [th_cb EXCEPT ![s] =
                            [op |-> "get_buffer", ref |-> id]]
            /\ th_writes' = th_writes
                            \cup {FieldWrite(id, "buffer", "callback", s)}
            /\ slots' = [slots EXCEPT ![s].pts = pts]
       ELSE /\ frames' = IF found THEN FrameRef(frames, frame_number)
                         ELSE frames
            /\ slots' = [slots EXCEPT ![s].st = "decoding", ![s].ud = 0,
                                      ![s].own = "default", ![s].pts = pts]
            /\ UNCHANGED <<refs, th_cb, th_writes>>
    /\ UNCHANGED <<th_pc, th_slot, outq, rb>>
    /\ UNCHANGED <<fmtVars, decVars, outVars, envVars, sfVars, hfVars,
                   fpsVars, flVars, cpVars>>

(* get_buffer from gst_video_frame_map on: the frame is mapped and the     *)
(* planes carry the FrameRef, or the FrameRef is released and the default  *)
(* allocator serves the picture.                                           *)
ThGetBufferEnd(s, map_ok) ==
    LET id == th_cb[s].ref IN
    /\ th_cb[s].op = "get_buffer"
    /\ th_cb' = [th_cb EXCEPT ![s] = NoCallback]
    /\ IF map_ok
       THEN /\ refs' = [refs EXCEPT ![id].mapped = TRUE,
                                    ![id].zero_copy = TRUE]
            /\ th_writes' = th_writes
                            \cup {FieldWrite(id, "mapped", "callback", s)}
            /\ slots' = [slots EXCEPT ![s].st = "decoding", ![s].ud = id,
                                      ![s].own = "host"]
            /\ UNCHANGED frames
       ELSE /\ refs' = [refs EXCEPT ![id] = ReleasedRef(refs[id])]
            /\ th_writes' = th_writes
                            \cup {FieldWrite(id, "buffer", "callback", s)}
            /\ frames' = FrameUnref(frames, refs[id].frame)
            /\ slots' = [slots EXCEPT ![s].st = "decoding", ![s].ud = 0,
                                      ![s].own = "default"]
    /\ UNCHANGED <<th_pc, th_slot, outq, gb, rb>>
    /\ UNCHANGED <<fmtVars, decVars, outVars, envVars, sfVars, hfVars,
                   fpsVars, flVars, cpVars>>

(* The engine finishes the picture of a slot. *)
ThPictureDecoded(s) ==
    /\ CallbackAllowed(s, {"decoding"})
    /\ slots' = [slots EXCEPT ![s].st = "ready"]
    /\ outq' = Append(outq, s)
    /\ UNCHANGED <<refs, frames, gb, rb, thVars>>
    /\ UNCHANGED <<fmtVars, decVars, outVars, envVars, sfVars, hfVars,
                   fpsVars, flVars, cpVars>>

(* release_buffer is entered for a picture the engine has no more use of:  *)
(* one it was decoding, or one it was given back.                          *)
ThReleaseBufferBegin(s) ==
    /\ CallbackAllowed(s, {"decoding", "out"})
    /\ th_cb' = [th_cb EXCEPT ![s] =
                    [op |-> "release_buffer", ref |-> slots[s].ud]]
    /\ UNCHANGED <<th_pc, th_slot, th_writes, picVars>>
    /\ UNCHANGED <<fmtVars, decVars, outVars, envVars, sfVars, hfVars,
                   fpsVars, flVars, cpVars>>

(* release_buffer: gst_libde265_dec_release_frame_ref, or the default      *)
(* release for a picture without a FrameRef.                               *)
ThReleaseBufferEnd(s) ==
    LET id == th_cb[s].ref IN
    /\ th_cb[s].op = "release_buffer"
    /\ th_cb' = [th_cb EXCEPT ![s] = NoCallback]
    /\ refs' = IF id = 0 THEN refs
               ELSE [refs EXCEPT ![id] = ReleasedRef(refs[id])]
    /\ th_writes' = IF id = 0 THEN th_writes
                    ELSE th_writes
                         \cup {FieldWrite(id, "buffer", "callback", s)}
    /\ frames' = IF id = 0 THEN frames
                 ELSE FrameUnref(frames, refs[id].frame)
    /\ slots' = [slots EXCEPT ![s].st = "free", ![s].own = "none"]
    /\ UNCHANGED <<th_pc, th_slot, outq, gb, rb>>
    /\ UNCHANGED <<fmtVars, decVars, outVars, envVars, sfVars, hfVars,
                   fpsVars, flVars, cpVars>>

(* img = de265_get_next_picture (dec->ctx) with a picture: the engine      *)
(* hands it out.  A picture without a FrameRef is copied and given back,   *)
(* no field of a FrameRef being touched.                                   *)
ThGetNextPicture ==
    LET s == Head(outq) IN
    /\ th_pc = 0
    /\ outq # <<>>
    /\ outq' = Tail(outq)
    /\ IF slots[s].ud # 0
       THEN /\ slots' = [slots EXCEPT ![s].st = "pinned"]
            /\ th_pc' = 1
            /\ th_slot' = s
       ELSE /\ slots' = [slots EXCEPT ![s].st = "out"]
            /\ UNCHANGED <<th_pc, th_slot>>
    /\ UNCHANGED <<th_cb, th_writes, refs, frames, gb, rb>>
    /\ UNCHANGED <<fmtVars, decVars, outVars, envVars, sfVars, hfVars,
                   fpsVars, flVars, cpVars>>

(* One statement of the delivery of the picture of th_slot. *)
ThDeliver ==
    LET step == DeliverySteps[th_pc]
        s == th_slot
        id == slots[s].ud
        out_frame == refs[id].frame
    IN
    /\ th_pc > 0
    /\ th_pc' = IF th_pc = Len(DeliverySteps) THEN 0 ELSE th_pc + 1
    /\ th_slot' = IF th_pc = Len(DeliverySteps) THEN 0 ELSE th_slot
    /\ frames' = IF step = "take"
                 THEN [FrameRef(frames, out_frame)
                          EXCEPT ![out_frame + 1].outbuf = refs[id].buffer,
                                 ![out_frame + 1].given =
                                     IF refs[id].buffer
                                     THEN Append(@, id) ELSE @,
                                 ![out_frame + 1].out = "zero-copy"]
                 ELSE IF step = "finish"
                 THEN FinishFrame(frames, out_frame)
                 ELSE frames
    /\ refs' = IF step = "drop"
               THEN [refs EXCEPT ![id] = DeliveredRef(@)]
               ELSE refs
    /\ th_writes' = IF step = "drop"
                    THEN th_writes
                         \cup {FieldWrite(id, "buffer", "pump", s)}
                    ELSE th_writes
    /\ slots' = IF step = "release" THEN [slots EXCEPT ![s].st = "out"]
                ELSE slots
    /\ UNCHANGED <<th_cb, outq, gb, rb>>
    /\ UNCHANGED <<fmtVars, decVars, outVars, envVars, sfVars, hfVars,
                   fpsVars, flVars, cpVars>>

ThreadsInit ==
    /\ FmtIdle /\ DecInit /\ OutInit /\ EnvInit /\ SfIdle /\ HfIdle
    /\ PicInit /\ FpsInit /\ FlIdle /\ CpIdle /\ ThIdle

ThreadsNext ==
    \/ \E pts \in {DemuxPts} : ThHandleFrame(pts)
    \/ \E s \in Slots, alloc_ok \in BOOLEAN :
          ThGetBufferBegin(s, alloc_ok, DemuxPts)
    \/ \E s \in Slots, map_ok \in BOOLEAN : ThGetBufferEnd(s, map_ok)
    \/ \E s \in Slots : ThPictureDecoded(s)
    \/ \E s \in Slots : ThReleaseBufferBegin(s)
    \/ \E s \in Slots : ThReleaseBufferEnd(s)
    \/ ThGetNextPicture
    \/ ThDeliver

SpecThreads == ThreadsInit /\ [][ThreadsNext]_vars

---------------------------------------------------------------------------
(* The threads: claim C21. *)

---------------------------------------------------------------------------
(* The length-prefix size: claim C22. *)

(* set_format was called with a record it took as Packetized. *)
PacketizedIngested ==
    /\ sf_pc # "idle"
    /\ Len(sf_data) > 3
    /\ (sf_data[1] # 0 \/ sf_data[2] # 0 \/ sf_data[3] > 1)

(* C22 as stated: for every Packetized record of 22 bytes or more, the     *)
(* length-prefix size after ingestion is (byte 21 & 3) + 1.                *)
C22_Original ==
    (PacketizedIngested /\ Len(sf_data) >= 22) =>
        length_size = (sf_data[22] % 4) + 1

(* C22: for every Packetized configuration record of more than 22 bytes,   *)
(* the length-prefix size is (byte 21 & 3) + 1 from the start of ingestion *)
(* on, whether or not ingestion then fails; a Packetized record of 22      *)
(* bytes or fewer leaves the length-prefix size as it was (4 in a new      *)
(* session).  The record of version 0 with 2 in the field and one array of *)
(* one 10-byte unit yields one NAL push of ten bytes and the size 3.       *)
C22_LengthSizeFromByte21 ==
    /\ (PacketizedIngested /\ Len(sf_data) > 22) =>
          length_size = (sf_data[22] % 4) + 1
    /\ (PacketizedIngested /\ Len(sf_data) <= 22) => length_size = 4
    /\ (sf_pc = "done" /\ sf_data = ExampleRecord) =>
          /\ length_size = 3
          /\ Len(NalPushes) = 1
          /\ NalPushes[1].len = 10
          /\ NalPushes[1].bytes = [k \in 1..10 |-> 1]
          /\ DataPushes = <<>>

(* C22 witness: the example record has been ingested with success, and the *)
(* size recorded is 3.                                                     *)
C22_Witness ==
    /\ sf_pc = "done" /\ sf_ret = "TRUE"
    /\ sf_data = ExampleRecord
    /\ Len(NalPushes) = 1
    /\ length_size = 3

(* A Packetized record of exactly 22 bytes whose byte 21 holds 1 has been  *)
(* ingested, and the length-prefix size is still 4.                        *)
C22_ShortRecordKeepsSize ==
    /\ sf_pc = "done" /\ sf_ret = "TRUE"
    /\ PacketizedIngested
    /\ Len(sf_data) = 22
    /\ sf_data[22] = 1
    /\ length_size = 4

---------------------------------------------------------------------------
(* The order of the steps of handle_frame: claim C23. *)

(* The step of handle_frame an engine call belongs to. *)
StepOf(op) ==
    IF op \in {"push_NAL", "push_data", "push_end_of_stream"} THEN 1
    ELSE IF op = "decode" THEN 2
    ELSE IF op = "get_warning" THEN 3
    ELSE IF op = "get_next_picture" THEN 4
    ELSE 0

(* C23: within one handle_frame call the engine is called in this order:   *)
(* the pushes of the chunk (or the end-of-stream signal for an empty       *)
(* chunk), then the pump, then the warning drain, then at most one picture *)
(* retrieval; the pump starts only when the whole chunk has been pushed;   *)
(* a push or end-of-stream signal the engine does not answer with OK is    *)
(* the last call of the engine in that handle_frame call, which returns    *)
(* GST_FLOW_ERROR with an error posted: no retry, no further push, no      *)
(* pump, no retrieval.                                                     *)
C23_StepOrder ==
    hf_pc # "idle" =>
        /\ \A k \in 1..Len(eng) : StepOf(eng[k].op) \in 1..4
        /\ \A k \in 1..(Len(eng) - 1) :
              StepOf(eng[k].op) <= StepOf(eng[k + 1].op)
        /\ Cardinality({k \in 1..Len(eng) :
                           eng[k].op = "get_next_picture"}) <= 1
        /\ Cardinality({k \in 1..Len(eng) : eng[k].op = "decode"}) <= 1
        /\ (\E k \in 1..Len(eng) : StepOf(eng[k].op) > 1) =>
              IF hf_data = <<>>
              THEN eng[1].op = "push_end_of_stream" /\ StepOf(eng[2].op) > 1
              ELSE IF mode = GST_TYPE_LIBDE265_DEC_PACKETIZED
              THEN hf_start + length_size > Len(hf_data)
              ELSE /\ eng[1].op = "push_data"
                   /\ eng[1].bytes = hf_data
                   /\ StepOf(eng[2].op) > 1
        /\ \A k \in 1..Len(eng) :
              (StepOf(eng[k].op) = 1 /\ eng[k].res # DE265_OK) =>
                  /\ k = Len(eng)
                  /\ hf_pc = "done"
                  /\ hf_ret = GST_FLOW_ERROR
                  /\ Len(host) = 1

(* C23 witness: a call has returned after two NAL pushes, the pump, a      *)
(* warning drained and the retrieval attempt.                              *)
C23_Witness ==
    /\ hf_pc = "done"
    /\ Len(eng) = 6
    /\ eng[1].op = "push_NAL" /\ eng[2].op = "push_NAL"
    /\ eng[3].op = "decode"
    /\ eng[4].op = "get_warning" /\ eng[4].res = DE265_WARNING
    /\ eng[5].op = "get_warning" /\ eng[5].res = DE265_OK
    /\ eng[6].op = "get_next_picture"

(* The second NAL push of a chunk was rejected: the call has returned      *)
(* GST_FLOW_ERROR, and the rejected push is the last call of the engine.   *)
C23_RejectedPushEndsCall ==
    /\ hf_pc = "done" /\ hf_ret = GST_FLOW_ERROR
    /\ Len(eng) = 2
    /\ eng[1].op = "push_NAL" /\ eng[1].res = DE265_OK
    /\ eng[2].op = "push_NAL" /\ eng[2].res = DE265_ERROR_OTHER

---------------------------------------------------------------------------
(* The warning drain: claim C24. *)

(* The answers of the engine to de265_get_warning in the running or last   *)
(* call.                                                                   *)
WarningCalls == SelectSeq(eng, LAMBDA c : c.op = "get_warning")

(* The warnings of the engine posted to the host in that call. *)
WarningsPosted == SelectSeq(host, LAMBDA m : m = "warning: engine warning")

(* de265_get_warning was called until the engine had no warning left, and  *)
(* every warning it gave was posted to the host as a warning.              *)
Drained ==
    /\ WarningCalls # <<>>
    /\ WarningCalls[Len(WarningCalls)].res = DE265_OK
    /\ \A k \in 1..(Len(WarningCalls) - 1) : WarningCalls[k].res # DE265_OK
    /\ Len(WarningsPosted) = Len(WarningCalls) - 1

(* The pump of the handler has ended without a fatal status and the        *)
(* handler is past its warning drain, if it has one.                       *)
HandleFramePumpOver ==
    /\ HandleFramePumped
    /\ hf_pc \in {"picture", "done"}
    /\ DecodeStatus \in {DE265_OK, DE265_ERROR_WAITING_FOR_INPUT_DATA,
                         DE265_ERROR_IMAGE_BUFFER_FULL}

SetFormatPumpOver ==
    SetFormatPumped /\ sf_pc = "done" /\ sf_ret = "TRUE"

FlushPumpOver ==
    FlushPumped /\ fl_pc = "done" /\ fl_ret = "TRUE"

C24_NoDrainInSetFormat ==
    SetFormatPumpOver /\ WarningCalls = <<>>

---------------------------------------------------------------------------
(* The ownership of the output buffers: claim C25. *)

(* The references to the output buffer of FrameRef r that host frames hold *)
(* or have handed downstream.                                              *)
HeldByFrames(r) ==
    Cardinality({p \in (1..Len(frames)) \X (1..MaxCalls) :
                    /\ p[2] <= Len(frames[p[1]].given)
                    /\ frames[p[1]].given[p[2]] = r})

(* The reference the FrameRef holds. *)
HeldByRef(r) == IF refs[r].buffer THEN 1 ELSE 0

---------------------------------------------------------------------------
(* The life of the element: the "mode" property, start, stop. *)

(* gst_libde265_dec_set_property, PROP_MODE: dec->mode is set. *)
SetPropertyMode(value) ==
    /\ mode' = value
    /\ UNCHANGED <<length_size, codec_data, ctx>>
    /\ UNCHANGED <<fmtVars, outVars, envVars, sfVars, hfVars, picVars,
                   fpsVars, flVars, cpVars, thVars>>

(* No handler of the element is running. *)
NoHandler ==
    /\ sf_pc \in {"idle", "done"}
    /\ hf_pc \in {"idle", "done"}
    /\ fl_pc \in {"idle", "done"}

(* The release_buffer call de265_free_decoder makes last, as rb keeps it. *)
FreeDecoderRelease ==
    IF ctx # "NULL" /\ \E s \in Slots : SlotHeld(s)
    THEN LET s == CHOOSE t \in Slots :
                     /\ SlotHeld(t)
                     /\ \A u \in Slots : SlotHeld(u) => u <= t
         IN [called |-> TRUE, slot |-> s, ud |-> slots[s].ud,
             default |-> slots[s].ud = 0, touched |-> slots[s].ud # 0,
             dropped |-> IF slots[s].ud # 0 /\ refs[slots[s].ud].buffer
                         THEN 1 ELSE 0]
    ELSE rb

(* FreeDecoder that puts the mode and the length size back to what        *)
(* gst_libde265_dec_init sets.                                             *)
FreeDecoder_resets(new_ctx) ==
    /\ slots' = IF ctx # "NULL" THEN ResetSlots ELSE slots
    /\ outq' = IF ctx # "NULL" THEN <<>> ELSE outq
    /\ refs' = IF ctx # "NULL" THEN ResetRefs ELSE refs
    /\ frames' = IF ctx # "NULL" THEN ResetFrames ELSE frames
    /\ rb' = FreeDecoderRelease
    /\ ctx' = new_ctx
    /\ width' = -1
    /\ height' = -1
    /\ buffer_full' = 0
    /\ codec_data' = NoCodecData
    /\ frame_number' = -1
    /\ input_state' = NoState
    /\ output_state' = "NULL"
    /\ out_fps' = NoState
    /\ mode' = DEFAULT_MODE
    /\ length_size' = 4
    /\ UNCHANGED <<fps, caps_fps, gb>>
    /\ UNCHANGED <<fmtVars, envVars, sfVars, hfVars, flVars, cpVars, thVars>>

(* _gst_libde265_dec_free_decoder: the decoder context is freed, its       *)
(* pictures with it; the configuration record and the two states are       *)
(* given up; _gst_libde265_dec_reset_decoder.  new_ctx is what dec->ctx is *)
(* left as.                                                                *)
FreeDecoder(new_ctx) ==
    /\ slots' = IF ctx # "NULL" THEN ResetSlots ELSE slots
    /\ outq' = IF ctx # "NULL" THEN <<>> ELSE outq
    /\ refs' = IF ctx # "NULL" THEN ResetRefs ELSE refs
    /\ frames' = IF ctx # "NULL" THEN ResetFrames ELSE frames
    /\ rb' = FreeDecoderRelease
    /\ ctx' = new_ctx
    /\ width' = -1
    /\ height' = -1
    /\ buffer_full' = 0
    /\ codec_data' = NoCodecData
    /\ frame_number' = -1
    /\ input_state' = NoState
    /\ output_state' = "NULL"
    /\ out_fps' = NoState
    /\ UNCHANGED <<mode, length_size, fps, caps_fps, gb>>
    /\ UNCHANGED <<fmtVars, envVars, sfVars, hfVars, flVars, cpVars, thVars>>

(* gst_libde265_dec_start: the old decoder is freed and a new one made     *)
(* (ok), or de265_new_decoder fails and the call returns FALSE.            *)
Start(ok) ==
    /\ NoHandler
    /\ FreeDecoder(IF ok THEN "ctx" ELSE "NULL")

(* gst_libde265_dec_stop *)
Stop ==
    /\ NoHandler
    /\ FreeDecoder("NULL")

(* The life specification: a new element; the host sets the "mode"         *)
(* property, starts and stops the element, and between start and stop      *)
(* calls set_format, handle_frame and flush in any order, the engine       *)
(* answering every status.                                                 *)
LifeRecords ==
    {<<0, 0, 1, 9>>, CfgRecord(<<0, 0, 2, 0>>, 1, <<>>)}
    \cup {CfgRecord(<<1, 0, 0, 0>>, b21, <<0>>) : b21 \in {0, 1, 254, 255}}

LifeInit ==
    /\ FmtIdle /\ ElementInit /\ OutInit /\ EnvInit /\ SfIdle /\ HfIdle
    /\ PicInit /\ FpsInit /\ FlIdle /\ CpIdle /\ ThIdle

LifeNext ==
    \/ \E value \in {GST_TYPE_LIBDE265_DEC_PACKETIZED,
                     GST_TYPE_LIBDE265_DEC_RAW} : SetPropertyMode(value)
    \/ \E ok \in BOOLEAN : Start(ok)
    \/ Stop
    \/ /\ ctx # "NULL"
       /\ \E data \in LifeRecords : SetFormat(data, TRUE, DE265_OK)
    \/ /\ ctx # "NULL"
       /\ \E stream_format \in {"byte-stream", "hvc1"} :
             SetFormatNoCodecData(stream_format)
    \/ SetFormatArray
    \/ SetFormatEnd
    \/ \E err \in {DE265_OK, DE265_ERROR_OTHER} : SetFormatPump(err, FALSE)
    \/ /\ ctx # "NULL"
       /\ \E data \in SessionChunks : HandleFrame(data, DemuxPts, TRUE, DE265_OK)
    \/ \E err \in PushResults : HandleFrameNal(err)
    \/ \E err \in {DE265_OK, DE265_ERROR_OTHER} : HandleFramePump(err, FALSE)
    \/ HandleFrameWarning(DE265_OK)
    \/ HandleFramePicture(TRUE, TRUE, GST_FLOW_OK)
    \/ /\ ctx # "NULL"
       /\ Flush(DE265_OK)
    \/ \E err \in {DE265_OK, DE265_ERROR_OTHER} : FlushPump(err, FALSE)

SpecLife == LifeInit /\ [][LifeNext]_vars

---------------------------------------------------------------------------
(* The mode and the length size over the life of the element: claims C26   *)
(* and C27.                                                                *)

(* The step is the start of a set_format call. *)
SetFormatStep ==
    \/ \E data \in LifeRecords : SetFormat(data, TRUE, DE265_OK)
    \/ \E stream_format \in {"byte-stream", "hvc1"} :
          SetFormatNoCodecData(stream_format)

(* The step is the host setting the "mode" property. *)
SetPropertyStep ==
    \E value \in {GST_TYPE_LIBDE265_DEC_PACKETIZED,
                  GST_TYPE_LIBDE265_DEC_RAW} : SetPropertyMode(value)

(* C26 as stated: the mode and the length size are changed by set_format   *)
(* only.                                                                   *)
C26_Original ==
    [][(mode' # mode \/ length_size' # length_size) => SetFormatStep]_vars

(* C26: the length size is changed by set_format only, the mode by         *)
(* set_format and by the host setting the "mode" property; every step of   *)
(* handle_frame, flush, start and stop leaves both as they are.            *)
C26_ModeAndSizeKept ==
    [][/\ length_size' # length_size => SetFormatStep
       /\ mode' # mode => SetFormatStep \/ SetPropertyStep]_vars

(* C26 witness: a record set the Packetized mode and the length size 2;    *)
(* the element was stopped and started, a handle_frame call has pumped the *)
(* engine and flush has run, and both values are as the record left them.  *)
C26_Witness ==
    /\ mode = GST_TYPE_LIBDE265_DEC_PACKETIZED
    /\ length_size = 2
    /\ ctx = "ctx"
    /\ codec_data = NoCodecData
    /\ frame_number >= 0
    /\ hf_pc = "done"
    /\ fl_pc = "done"

(* The host has set the mode to raw after a Packetized record was taken:   *)
(* the mode is raw with the record still held.                             *)
C26_ModeSetByProperty ==
    /\ mode = GST_TYPE_LIBDE265_DEC_RAW
    /\ sf_pc = "done"
    /\ codec_data = CfgRecord(<<1, 0, 0, 0>>, 1, <<0>>)

(* C27: in every state of the element, after any sequence of init, start,  *)
(* set_format, handle_frame, flush and stop (and of settings of the "mode" *)
(* property), the length size is one of 1, 2, 3, 4; it is 4 as long as     *)
(* set_format has not been called.                                         *)
C27_LengthSizeRange ==
    /\ length_size \in 1..4
    /\ sf_pc = "idle" => length_size = 4

(* C27 witness: a record whose byte 21 is 0xFC has set the length size 1,  *)
(* and the element has been stopped since.                                 *)
C27_Witness ==
    /\ length_size = 1
    /\ sf_data = CfgRecord(<<1, 0, 0, 0>>, 0, <<0>>)
    /\ ctx = "NULL"
    /\ codec_data = NoCodecData

---------------------------------------------------------------------------
(* The progress of the packetized loop: claim C28. *)

(* C28 as stated, the engine accepting every push: every turn of the       *)
(* packetized loop moves the read position forward within the chunk, for   *)
(* every chunk and every length size 1..4, a 4-byte prefix with the top    *)
(* bit set included, and no NAL is pushed with a negative length.          *)
C28_LoopAdvances ==
    (DemuxCalled /\ \A k \in 1..Len(NalPushes) : NalPushes[k].res = DE265_OK)
        => /\ \A k \in 1..Len(NalPushes) : NalPushes[k].len >= 0
           /\ \A k \in 1..(Len(NalPushes) - 1) :
                 NalPushes[k + 1].off > NalPushes[k].off
           /\ hf_start >= 0 /\ hf_start <= Len(hf_data)
           /\ ~hf_ub
           /\ Len(NalPushes) <= Len(hf_data)

(* The prefix FF FF FF FC of a 4-byte length size: the NAL is pushed with  *)
(* length -4 and the read position stays where it was, turn after turn.    *)
C28_LoopStuck ==
    /\ DemuxCalled
    /\ length_size = 4
    /\ hf_data = StuckChunk
    /\ hf_pc = "nal"
    /\ hf_start = 0
    /\ Len(NalPushes) = MaxChunk + 1
    /\ \A k \in 1..Len(NalPushes) :
          NalPushes[k].off = 4 /\ NalPushes[k].len = -4

(* With the length sizes 1, 2 and 3 the length is never negative and every *)
(* turn moves the read position forward by at least the length size.       *)
C28_ShortPrefixesAdvance ==
    (DemuxCalled /\ length_size <= 3)
        => /\ \A k \in 1..Len(NalPushes) : NalPushes[k].len >= 0
           /\ \A k \in 1..(Len(NalPushes) - 1) :
                 NalPushes[k + 1].off >= NalPushes[k].off + length_size
           /\ hf_start >= 0 /\ hf_start <= Len(hf_data)
           /\ ~hf_ub

---------------------------------------------------------------------------
(* One FrameRef per host frame, one finish per host frame: claim C29. *)

(* The FrameRef is allocated and not freed. *)
LiveRef(r) == refs[r].freed = 0

(* C29 as stated: no two live FrameRefs are bound to the same host frame,  *)
(* and no host frame is finished more than once, also when the engine      *)
(* asks for several output buffers within one pump.                        *)
C29_OneRefOneFinish ==
    /\ \A r1, r2 \in 1..Len(refs) :
          (r1 # r2 /\ LiveRef(r1) /\ LiveRef(r2))
              => refs[r1].frame # refs[r2].frame
    /\ \A n \in 1..Len(frames) : frames[n].finished <= 1

(* The engine has asked for two output buffers during one handle_frame     *)
(* call: two live FrameRefs are bound to the frame of that call.           *)
C29_TwoRefsOneFrame ==
    /\ Len(refs) = 2
    /\ LiveRef(1) /\ LiveRef(2)
    /\ refs[1].zero_copy /\ refs[2].zero_copy
    /\ refs[1].frame = refs[2].frame
    /\ hf_pc = "pump"

(* Both pictures have been delivered: the first frame was finished twice,  *)
(* once by each call, and the second frame, released by its call, was      *)
(* never finished.                                                         *)
C29_FinishedTwice ==
    /\ Len(frames) = 2
    /\ frames[1].finished = 2
    /\ frames[1].given = <<1, 2>>
    /\ frames[2].finished = 0
    /\ hf_pc = "done"

---------------------------------------------------------------------------
(* The frame of a handle_frame call: claim C30. *)

(* What the call did with the frame it was given, the engine asking for no *)
(* output buffer: released (one reference dropped), finished (handed to    *)
(* the host, the caller's reference and the pending list's dropped), or    *)
(* kept.                                                                   *)
FrameDisposal ==
    LET f == frames[hf_frame + 1] IN
    IF f.finished = 1 /\ f.refs = NewFrame(hf_pts).refs - 2 THEN "finished"
    ELSE IF f.finished = 0 /\ f.refs = NewFrame(hf_pts).refs - 1
    THEN "released"
    ELSE IF f.finished = 0 /\ f.refs = NewFrame(hf_pts).refs THEN "kept"
    ELSE "other"

(* C30 as stated: every return path of handle_frame disposes of the frame  *)
(* it was given exactly once, by releasing it or by finishing a frame, the *)
(* paths that return an error and the early return on buffer-full          *)
(* included.                                                               *)
C30_FrameDisposedOnce ==
    (hf_pc = "done" /\ ~hf_ub) => FrameDisposal \in {"released", "finished"}

(* handle_frame has returned GST_FLOW_ERROR after a rejected push, or      *)
(* after a fatal decode status, and still holds its reference to the       *)
(* frame.                                                                  *)
C30_ErrorKeepsFrame ==
    /\ hf_pc = "done"
    /\ hf_ret = GST_FLOW_ERROR
    /\ host # <<>>
    /\ host[Len(host)] \in {"error: Error while pushing data",
                            "error: Error while decoding"}
    /\ FrameDisposal = "kept"

(* The paths that return success after de265_get_next_picture release the  *)
(* frame once.                                                             *)
C30_SuccessAfterRetrievalReleases ==
    (hf_pc = "done" /\ ~hf_ub /\ EngCalled("get_next_picture"))
        => hf_ret = GST_FLOW_OK /\ FrameDisposal = "released"

---------------------------------------------------------------------------
(* The mapping of the codec-data buffer in set_format: claim C31. *)

(* The messages of the returns from inside the parameter-set loop: the     *)
(* three buffer underruns and the rejected push of a parameter-set unit.   *)
LoopFailures ==
    {"error: Buffer underrun in extra header",
     "error: Buffer underrun in extra nal header",
     "error: Buffer underrun in extra nal",
     "error: Failed to push data"}

(* set_format has returned FALSE from inside the parameter-set loop. *)
ReturnedFromLoop ==
    /\ sf_pc = "done"
    /\ sf_ret = "FALSE"
    /\ host # <<>>
    /\ host[Len(host)] \in LoopFailures

(* C31 as stated: set_format unmaps the codec-data buffer it mapped on     *)
(* every return path: the successful return, every buffer-underrun return, *)
(* the return after a rejected parameter-set push, the return after a      *)
(* rejected raw push and the return after a fatal pump status.             *)
C31_UnmappedOnReturn == sf_pc = "done" => ~sf_mapped

(* set_format has returned after an underrun or a rejected parameter-set   *)
(* push and the codec-data buffer is still mapped.                         *)
C31_LoopReturnKeepsMapping == ReturnedFromLoop /\ sf_mapped

(* No return from inside the parameter-set loop unmaps the buffer. *)
C31_LoopReturnsNeverUnmap == ReturnedFromLoop => sf_mapped

(* The other returns leave the buffer unmapped: the failed map, the        *)
(* rejected raw push, the fatal pump status and the successful return.     *)
C31_OtherReturnsUnmap ==
    (sf_pc = "done" /\ ~ReturnedFromLoop) => ~sf_mapped

===========================================================================
